---- MODULE Spec2Model ----
(***************************************************************************)
(* Request-admission and resilience layer of the ad-copy gateway:          *)
(* CircuitBreaker, RequestQueue, RateLimiter, AlertManager and             *)
(* MetricsCollector, each modelled as a state machine over a shared clock. *)
(* Times are milliseconds, as returned by Date.now().                      *)
(***************************************************************************)
EXTENDS Integers, Sequences, FiniteSets, TLC

VARIABLES
    now,        \* Date.now()
    ticks,      \* number of clock advances so far (bounds the exploration)
    circuits,   \* CircuitBreaker.circuits : Map<provider, CircuitBreakerState>
    cbPending,  \* per provider: wrapped operations invoked by execute and not yet settled
    cbRun,      \* per provider: failed completions since the last successful completion
    cbStreak,   \* per provider: failed completions since the last successful completion
                \* or OPEN -> HALF_OPEN transition, whichever came last
    cbLast,     \* the last CircuitBreaker event: kind, provider, outcome
    pctValues,  \* calculatePercentile: the latencies passed in
    pctResult,  \* calculatePercentile: the percentile asked for and the value returned
    snapshots,  \* MetricsCollector.snapshots : the closed snapshots kept, oldest first
    mcClosed,   \* every snapshot closed by rotateSnapshot so far, oldest first
    mcSince,    \* the recordings made since the last rotation, by kind
    mcEvents,   \* number of recordings made so far (bounds the exploration)
    alertStates,    \* AlertManager.alertStates : Map<alertKey, AlertState>
    alertCalls,     \* checkAndAlert calls in flight: the alerts each has still to send
    alertFired,     \* per alert key: the times at which shouldSendAlert returned true
    alertNotified,  \* per alert key: the number of sendAlert invocations
    webhookUrl,     \* is ALERT_WEBHOOK_URL configured
    alertTrack,     \* what is followed of the alert manager: "sink", "window"
    alertLast,      \* how the post to the notification sink settled in the last step
                    \* ("none" after any other step, or when "sink" is not followed)
    alertWindow,    \* the window supplied to checkAndAlert in the last step (empty after
                    \* any other step, or when "window" is not followed)
    queues,         \* RequestQueue.queues : per user, the waiting requests (id, timestamp)
    processing,     \* RequestQueue.processing : per user, the in-flight counter
    qRunning,       \* per user: start times of the operations racing their timer
    qNextId,        \* number of requests put on a waiting list so far
    qLast,          \* the last RequestQueue event
    qLosers,        \* per user: settled races whose other contender (the operation
                    \* after a timeout, the timer after a completion) is still pending
    qTrackLosers,   \* are the pending contenders of settled races followed
    qTrackExpired,  \* are the requests rejected by cleanupStale followed
    qExpired,       \* ids of the waiting requests rejected by cleanupStale so far
                    \* (empty when they are not followed)
    qAbandoned,     \* per user: operations whose race the timer won and whose work
                    \* has not finished (the part of qLosers that are operations)
    rlCache,        \* RateLimiter.cache : per user, the RateLimitEntry object held (0: none)
    rlHeap,         \* the RateLimitEntry objects still referenced, by object identity
    rlCalls,        \* checkLimit calls: idle, or suspended in fetchFromDB or syncToDB
    rlDb,           \* api_usage rows of the endpoint: <<user, request_date>> -> request_count
    rlAnchor,       \* per user: time of the first admission of the 24 hours being counted
    rlAdmitted,     \* per user: admissions since rlAnchor, less than 24 hours ago
    rlStoreFailed,  \* has a read or a write of the durable store failed so far
    rlLast,         \* the last RateLimiter event
    ipCache,        \* IPRateLimiter.cache : Map<ip, IPRateLimitEntry>
    ipHour,         \* per IP: start of the hour being counted and the admissions in it
    ipBurst,        \* per IP: start of the 10 s being counted and the admissions in it
    ipLast,         \* the last IPRateLimiter event
    ipShadow,       \* the cache the same checkLimit calls leave when no sweep runs
    \* the request handler and MetricsCollector
    gwReq,          \* the request in the handler: where it stands, what it reached and
                    \* which methods of the metrics collector it has called
    gwCount,        \* requests that have arrived
    gwAbandoned,    \* per provider: calls still pending after the queue's timeout
    gwChecks,       \* runs of the alert monitoring interval so far
    currentSnapshot,  \* MetricsCollector.currentSnapshot
    providerMetrics   \* MetricsCollector.providerMetrics : Map<provider, ProviderMetrics>

cbVars == <<circuits, cbPending, cbRun, cbStreak, cbLast>>
pctVars == <<pctValues, pctResult, snapshots, mcClosed, mcSince, mcEvents>>
alertVars == <<alertStates, alertCalls, alertFired, alertNotified, webhookUrl,
               alertTrack, alertLast, alertWindow>>
qVars == <<queues, processing, qRunning, qNextId, qLast, qLosers, qTrackLosers, qTrackExpired, qExpired, qAbandoned>>
rlVars == <<rlCache, rlHeap, rlCalls, rlDb, rlAnchor, rlAdmitted, rlStoreFailed, rlLast>>
ipVars == <<ipCache, ipHour, ipBurst, ipLast, ipShadow>>
gwVars == <<gwReq, gwCount, gwAbandoned, gwChecks, currentSnapshot, providerMetrics>>
vars == <<now, ticks, cbVars, pctVars, alertVars, qVars, rlVars, ipVars, gwVars>>

(***************************************************************************)
(* Clock                                                                   *)
(***************************************************************************)
DAY_MS == 24 * 60 * 60 * 1000
\* The process starts at 23:58:00 UTC of some day, long after the epoch.
StartTime == 3 * DAY_MS - 120000

Advance(steps, maxTicks) ==
    /\ ticks < maxTicks
    /\ \E d \in steps : now' = now + d
    /\ ticks' = ticks + 1

(***************************************************************************)
(* CircuitBreaker (circuit-breaker.ts)                                     *)
(***************************************************************************)
Providers == {"gemini", "openai"}

FAILURE_THRESHOLD == 5
CB_TIMEOUT_MS == 60 * 1000

CBMaxTicks == 2     \* clock advances explored for the breaker
CBMaxPending == 2   \* overlapping wrapped operations
CBSteps == {CB_TIMEOUT_MS}

\* getCircuit's key: each provider name addresses its own entry.
CircuitKey_Shared(provider) == "gemini"
CircuitKey(provider) == provider

\* The entry getCircuit creates on first use.
NewCircuit(t) ==
    [state |-> "CLOSED", failures |-> 0, lastFailureTime |-> 0, lastSuccessTime |-> t]

\* this.circuits after getCircuit(provider) at time t.
GetCircuit(cs, provider, t) ==
    IF CircuitKey(provider) \in DOMAIN cs
    THEN cs
    ELSE (CircuitKey(provider) :> NewCircuit(t)) @@ cs

\* Line 40: has the open timeout passed?
TimeoutElapsed_AtBoundary(c, t) == t - c.lastFailureTime >= CB_TIMEOUT_MS
TimeoutElapsed(c, t) == t - c.lastFailureTime > CB_TIMEOUT_MS

\* Lines 41-43: OPEN -> HALF_OPEN.
ToHalfOpen_KeepsFailures(c) == [c EXCEPT !.state = "HALF_OPEN"]
ToHalfOpen(c) == [c EXCEPT !.state = "HALF_OPEN", !.failures = 0]

\* Lines 44-50: the circuit after a rejected call.
Rejected_CountsAsFailure(c, t) == [c EXCEPT !.lastFailureTime = t]
Rejected(c, t) == c

\* Line 81: onSuccess logs the recovery of a circuit it finds HALF_OPEN.
Recovers(c) == c.state = "HALF_OPEN"
\* onSuccess, lines 75-84.
OnSuccess_ClosesAny(c, t) ==
    [c EXCEPT !.failures = 0,
              !.lastSuccessTime = t,
              !.state = "CLOSED"]
OnSuccess(c, t) ==
    [c EXCEPT !.failures = 0,
              !.lastSuccessTime = t,
              !.state = IF c.state = "HALF_OPEN" THEN "CLOSED" ELSE c.state]

\* onFailure, lines 86-101.
OnFailure_NeverOpens(c, t) ==
    [c EXCEPT !.failures = c.failures + 1,
              !.lastFailureTime = t]
OnFailure_Above(c, t) ==
    [c EXCEPT !.failures = c.failures + 1,
              !.lastFailureTime = t,
              !.state = IF c.failures + 1 > FAILURE_THRESHOLD THEN "OPEN" ELSE c.state]
OnFailure(c, t) ==
    [c EXCEPT !.failures = c.failures + 1,
              !.lastFailureTime = t,
              !.state = IF c.failures + 1 >= FAILURE_THRESHOLD THEN "OPEN" ELSE c.state]

CBInit ==
    /\ circuits = <<>>
    /\ cbPending = [p \in Providers |-> 0]
    /\ cbRun = [p \in Providers |-> 0]
    /\ cbStreak = [p \in Providers |-> 0]
    /\ cbLast = [kind |-> "none", provider |-> "none", outcome |-> "none"]

\* The wrapped operations awaited by execute, over the providers of S.
RECURSIVE PendingCalls(_, _)
PendingCalls(pending, S) ==
    IF S = {} THEN 0
    ELSE LET p == CHOOSE q \in S : TRUE
         IN  pending[p] + PendingCalls(pending, S \ {p})

\* execute, lines 31-54, up to the await of the wrapped operation.
CBExecuteEffect(p) ==
    LET cs == GetCircuit(circuits, p, now)
        k  == CircuitKey(p)
        c  == cs[k]
    IN  /\ PendingCalls(cbPending, Providers) < CBMaxPending
        /\ IF c.state = "OPEN" /\ ~TimeoutElapsed(c, now)
           THEN /\ circuits' = [cs EXCEPT ![k] = Rejected(c, now)]
                /\ cbPending' = cbPending
                /\ cbStreak' = cbStreak
                /\ cbLast' = [kind |-> "execute", provider |-> p, outcome |-> "rejected"]
           ELSE /\ circuits' = [cs EXCEPT ![k] = IF c.state = "OPEN" THEN ToHalfOpen(c) ELSE c]
                /\ cbStreak' = [cbStreak EXCEPT ![p] = IF c.state = "OPEN" THEN 0 ELSE @]
                /\ cbPending' = [cbPending EXCEPT ![p] = @ + 1]
                /\ cbLast' = [kind |-> "execute", provider |-> p, outcome |-> "invoked"]
        /\ UNCHANGED <<cbRun>>

CBExecute(p) ==
    /\ CBExecuteEffect(p)
    /\ UNCHANGED <<now, ticks, pctVars, alertVars, qVars, rlVars, ipVars, gwVars>>

\* execute, lines 54-56: the wrapped operation resolves.
CBOperationSucceedsEffect(p) ==
    LET cs == GetCircuit(circuits, p, now)
        k  == CircuitKey(p)
    IN  /\ cbPending[p] > 0
        /\ cbPending' = [cbPending EXCEPT ![p] = @ - 1]
        /\ circuits' = [cs EXCEPT ![k] = OnSuccess(cs[k], now)]
        /\ cbRun' = [cbRun EXCEPT ![p] = 0]
        /\ cbStreak' = [cbStreak EXCEPT ![p] = 0]
        /\ cbLast' = [kind |-> "success", provider |-> p,
                      outcome |-> IF Recovers(cs[k]) THEN "recovered" ELSE "returned"]

CBOperationSucceeds(p) ==
    /\ CBOperationSucceedsEffect(p)
    /\ UNCHANGED <<now, ticks, pctVars, alertVars, qVars, rlVars, ipVars, gwVars>>

\* execute, lines 57-60: the wrapped operation throws.
CBOperationFailsEffect(p) ==
    LET cs == GetCircuit(circuits, p, now)
        k  == CircuitKey(p)
    IN  /\ cbPending[p] > 0
        /\ cbPending' = [cbPending EXCEPT ![p] = @ - 1]
        /\ circuits' = [cs EXCEPT ![k] = OnFailure(cs[k], now)]
        /\ cbRun' = [cbRun EXCEPT ![p] = IF @ < FAILURE_THRESHOLD THEN @ + 1 ELSE @]
        /\ cbStreak' = [cbStreak EXCEPT ![p] = IF @ < FAILURE_THRESHOLD THEN @ + 1 ELSE @]
        /\ cbLast' = [kind |-> "failure", provider |-> p, outcome |-> "thrown"]

CBOperationFails(p) ==
    /\ CBOperationFailsEffect(p)
    /\ UNCHANGED <<now, ticks, pctVars, alertVars, qVars, rlVars, ipVars, gwVars>>

\* getStatus, lines 103-109.
CBGetStatus(p) ==
    /\ circuits' = GetCircuit(circuits, p, now)
    /\ cbLast' = [kind |-> "status", provider |-> p, outcome |-> circuits'[CircuitKey(p)].state]
    /\ UNCHANGED <<cbPending, cbRun, cbStreak, now, ticks, pctVars, alertVars, qVars, rlVars, ipVars, gwVars>>

CBTick ==
    /\ Advance(CBSteps, CBMaxTicks)
    /\ cbLast' = [kind |-> "tick", provider |-> "none", outcome |-> "none"]
    /\ UNCHANGED <<circuits, cbPending, cbRun, cbStreak, pctVars, alertVars, qVars, rlVars, ipVars, gwVars>>

CBNext ==
    \/ \E p \in Providers : CBExecute(p)
    \/ \E p \in Providers : CBOperationSucceeds(p)
    \/ \E p \in Providers : CBOperationFails(p)
    \/ \E p \in Providers : CBGetStatus(p)
    \/ CBTick

(***************************************************************************)
(* CircuitBreaker properties                                               *)
(***************************************************************************)
HasCircuit(p) == p \in DOMAIN circuits
IsOpen(p) == HasCircuit(p) /\ circuits[p].state = "OPEN"
\* The entry of provider p as a sequence: empty while getCircuit has not created it.
CircuitOf(cs, p) == IF p \in DOMAIN cs THEN <<cs[p]>> ELSE <<>>
CBEvent(kind, p) == cbLast.kind = kind /\ cbLast.provider = p
WithinOpenTimeout(p) == now - circuits[p].lastFailureTime <= CB_TIMEOUT_MS

\* C2 as stated: whenever FAILURE_THRESHOLD calls of a provider have failed with no
\* successful completion between them, the breaker is OPEN after the last failure.
C2_OpenAfterConsecutiveFailures ==
    \A p \in Providers :
        (CBEvent("failure", p) /\ cbRun[p] >= FAILURE_THRESHOLD) => IsOpen(p)

C2_StreakOpens ==
    \A p \in Providers : cbStreak[p] >= FAILURE_THRESHOLD => IsOpen(p)
C2_NextCallRejected ==
    \A p \in Providers :
        (/\ cbStreak[p] >= FAILURE_THRESHOLD
         /\ HasCircuit(p)
         /\ WithinOpenTimeout(p)
         /\ CBEvent("execute", p)')
        => (cbLast'.outcome = "rejected" /\ cbPending'[p] = cbPending[p])
\* C2 amended: FAILURE_THRESHOLD failed calls with neither a successful completion nor
\* an OPEN -> HALF_OPEN transition between them leave the breaker OPEN, and the next
\* execute made within the open timeout is rejected without invoking the operation.
C2_OpenAfterFailureStreak == []C2_StreakOpens /\ [][C2_NextCallRejected]_vars
\* The sixth call, rejected after five failures in a row.
C2_Witness ==
    \E p \in Providers :
        /\ CBEvent("execute", p) /\ cbLast.outcome = "rejected"
        /\ cbStreak[p] >= FAILURE_THRESHOLD /\ cbPending[p] = 0

C3_LeavesOpenOnlyAfterTimeout ==
    \A p \in Providers :
        IsOpen(p) =>
            /\ ~IsOpen(p)' =>
                /\ CBEvent("execute", p)'
                /\ circuits'[p].state = "HALF_OPEN"
                /\ now - circuits[p].lastFailureTime > CB_TIMEOUT_MS
            /\ (CBEvent("execute", p)' /\ WithinOpenTimeout(p)) =>
                (cbLast'.outcome = "rejected" /\ IsOpen(p)')
\* C3: an OPEN breaker changes state only in an execute made strictly more than
\* CB_TIMEOUT_MS after lastFailureTime, and then to HALF_OPEN; an execute made up to
\* and including lastFailureTime + CB_TIMEOUT_MS is rejected and leaves it OPEN.
C3_HalfOpenOnlyAfterTimeout == [][C3_LeavesOpenOnlyAfterTimeout]_vars
\* A breaker that was rejected at the boundary and let a call through later.
C3_Witness ==
    \E p \in Providers :
        /\ CBEvent("execute", p) /\ cbLast.outcome = "invoked"
        /\ HasCircuit(p) /\ circuits[p].state = "HALF_OPEN"
        /\ now - circuits[p].lastFailureTime > CB_TIMEOUT_MS

C9_RejectedStep ==
    \A p \in Providers :
        (CBEvent("execute", p)' /\ cbLast'.outcome = "rejected")
        => /\ CircuitOf(circuits', p) = CircuitOf(circuits, p)
           /\ cbPending' = cbPending
\* C9: a rejected execute leaves the provider's state, failures, lastFailureTime and
\* lastSuccessTime unchanged and invokes no operation.
C9_RejectedCallChangesNothing == [][C9_RejectedStep]_vars
\* A call rejected exactly CB_TIMEOUT_MS after the last failure.
C9_Witness ==
    \E p \in Providers :
        /\ CBEvent("execute", p) /\ cbLast.outcome = "rejected"
        /\ IsOpen(p) /\ now - circuits[p].lastFailureTime = CB_TIMEOUT_MS

C10_OtherProvidersUntouched ==
    \A p, q \in Providers :
        (p # q /\ cbLast'.provider = p /\ cbLast'.kind \in {"execute", "success", "failure", "status"})
        => /\ CircuitOf(circuits', q) = CircuitOf(circuits, q)
           /\ cbPending'[q] = cbPending[q]
C10_RejectedOnlyByOwnBreaker ==
    \A q \in Providers :
        (CBEvent("execute", q)' /\ cbLast'.outcome = "rejected")
        => (IsOpen(q) /\ WithinOpenTimeout(q))
\* C10: an action for provider p leaves every other provider's entry unchanged, and
\* a call for q is rejected only when q's own breaker is OPEN within its timeout.
C10_ProvidersIndependent ==
    [][C10_OtherProvidersUntouched /\ C10_RejectedOnlyByOwnBreaker]_vars
\* A call for openai goes through while gemini's breaker is OPEN.
C10_Witness ==
    /\ IsOpen("gemini")
    /\ CBEvent("execute", "openai") /\ cbLast.outcome = "invoked"
    /\ HasCircuit("openai") /\ circuits["openai"].state = "CLOSED"

IsHalfOpen(p) == HasCircuit(p) /\ circuits[p].state = "HALF_OPEN"
IsClosed(p) == HasCircuit(p) /\ circuits[p].state = "CLOSED"
C19_SuccessStep ==
    \A p \in Providers :
        /\ (IsHalfOpen(p) /\ CBEvent("success", p)')
              => (IsClosed(p)' /\ circuits'[p].failures = 0 /\ cbLast'.outcome = "recovered")
        /\ (IsHalfOpen(p) /\ IsClosed(p)') => CBEvent("success", p)'
        /\ (IsOpen(p) /\ CBEvent("success", p)')
              => (IsOpen(p)' /\ cbLast'.outcome = "returned")
\* C19: a call that completes with success while its breaker is HALF_OPEN sets the
\* breaker to CLOSED with failures 0; no other step takes a breaker from HALF_OPEN
\* to CLOSED, and a success that completes while the breaker is OPEN leaves it OPEN.
C19_ClosedOnlyBySuccessInHalfOpen == [][C19_SuccessStep]_vars
\* A probe has succeeded: onSuccess found the circuit HALF_OPEN and closed it.
C19_Witness ==
    \E p \in Providers :
        /\ CBEvent("success", p) /\ cbLast.outcome = "recovered"
        /\ IsClosed(p) /\ circuits[p].failures = 0
        /\ circuits[p].lastFailureTime > StartTime
\* A call admitted before the breaker opened has succeeded while it is OPEN.
C19_WitnessOpen ==
    \E p \in Providers : CBEvent("success", p) /\ cbLast.outcome = "returned" /\ IsOpen(p)

\* C33: a breaker that is CLOSED or HALF_OPEN has failures below
\* FAILURE_THRESHOLD, whatever the order in which overlapping calls complete.
C33_BelowThresholdUnlessOpen ==
    \A p \in Providers :
        (HasCircuit(p) /\ circuits[p].state \in {"CLOSED", "HALF_OPEN"})
            => circuits[p].failures < FAILURE_THRESHOLD
\* A failure brought a HALF_OPEN breaker to one failure below the threshold while
\* another call of the provider is pending.
C33_Witness ==
    \E p \in Providers :
        /\ CBEvent("failure", p)
        /\ HasCircuit(p) /\ circuits[p].state = "HALF_OPEN"
        /\ circuits[p].failures = FAILURE_THRESHOLD - 1
        /\ cbPending[p] > 0
\* A CLOSED breaker one failure below the threshold with a call pending.
C33_WitnessClosed ==
    \E p \in Providers :
        /\ CBEvent("failure", p)
        /\ HasCircuit(p) /\ circuits[p].state = "CLOSED"
        /\ circuits[p].failures = FAILURE_THRESHOLD - 1
        /\ cbPending[p] > 0

\* C34: a breaker that is OPEN has failures at or above FAILURE_THRESHOLD, also
\* after calls started before it opened have completed, so that the state and
\* the failures getStatus reports agree.
C34_OpenMeansAtThreshold ==
    \A p \in Providers : IsOpen(p) => circuits[p].failures >= FAILURE_THRESHOLD

\* The failures of a HALF_OPEN breaker are the failed completions since the
\* transition or the last success, and they are below the threshold.
C22_HalfOpenCountsFromZero ==
    \A p \in Providers :
        IsHalfOpen(p) =>
            (circuits[p].failures = cbStreak[p] /\ circuits[p].failures < FAILURE_THRESHOLD)
C22_HalfOpenStep ==
    \A p \in Providers :
        /\ (IsOpen(p) /\ IsHalfOpen(p)') => circuits'[p].failures = 0
        /\ (IsHalfOpen(p) /\ CBEvent("failure", p)')
              => /\ circuits'[p].failures = circuits[p].failures + 1
                 /\ circuits'[p].state =
                       IF circuits[p].failures + 1 >= FAILURE_THRESHOLD THEN "OPEN" ELSE "HALF_OPEN"
        /\ (IsHalfOpen(p) /\ IsOpen(p)')
              => (CBEvent("failure", p)' /\ cbStreak'[p] = FAILURE_THRESHOLD)
        /\ (IsHalfOpen(p) /\ CBEvent("execute", p)')
              => (cbLast'.outcome = "invoked" /\ IsHalfOpen(p)'
                  /\ cbPending'[p] = cbPending[p] + 1)
\* C22: the OPEN -> HALF_OPEN transition sets failures to 0; a failure while
\* HALF_OPEN adds one to failures and reopens the breaker only when failures,
\* counted from 0 at the transition and reset by any success, reaches
\* FAILURE_THRESHOLD; below that the breaker stays HALF_OPEN and execute keeps
\* invoking the operation.
C22_HalfOpenFailurePath == []C22_HalfOpenCountsFromZero /\ [][C22_HalfOpenStep]_vars
\* The first failure after the transition: the breaker is still HALF_OPEN with
\* failures 1.
C22_Witness ==
    \E p \in Providers :
        /\ CBEvent("failure", p)
        /\ IsHalfOpen(p) /\ circuits[p].failures = 1
\* A call let through after that failure.
C22_WitnessLetThrough ==
    \E p \in Providers :
        /\ CBEvent("execute", p) /\ cbLast.outcome = "invoked"
        /\ IsHalfOpen(p) /\ circuits[p].failures = 1

(***************************************************************************)
(* MetricsCollector.calculatePercentile (metrics.ts)                       *)
(***************************************************************************)
MaxLatencies == 5                  \* longest latency sequence explored
Latencies == {10, 20, 30, 40, 50}  \* durations in ms (differences of Date.now())
Percentiles == {95, 99}            \* getMetrics, lines 80-81

BoundedSeq(S, n) == UNION {[1..k -> S] : k \in 0..n}

\* Array.prototype.sort((a, b) => a - b): insertion into an ascending sequence.
RECURSIVE Insert(_, _)
Insert(x, sorted) ==
    IF sorted = <<>> THEN <<x>>
    ELSE IF x < Head(sorted) THEN <<x>> \o sorted
    ELSE <<Head(sorted)>> \o Insert(x, Tail(sorted))
RECURSIVE SortAscending(_)
SortAscending(values) ==
    IF values = <<>> THEN <<>>
    ELSE Insert(values[Len(values)], SortAscending(SubSeq(values, 1, Len(values) - 1)))

\* Math.ceil(a / b) for a >= 0, b > 0.
Ceil(a, b) == (a + b - 1) \div b

\* Line 116: Math.ceil((percentile / 100) * sorted.length) - 1, a 0-based index.
\* (percentile / 100) * n is no integer for the lengths explored, so the
\* floating-point product rounds up like the exact one.
PercentileIndex_Floor(percentile, n) == ((percentile * n) \div 100) - 1
PercentileIndex(percentile, n) == Ceil(percentile * n, 100) - 1

Max(a, b) == IF a >= b THEN a ELSE b

\* calculatePercentile, lines 113-118. Sequences are 1-based here.
CalculatePercentile(values, percentile) ==
    IF Len(values) = 0 THEN 0
    ELSE LET sorted == SortAscending(values)
             index  == PercentileIndex(percentile, Len(sorted))
         IN  sorted[Max(0, index) + 1]

\* MetricsCollector constructor, metrics.ts lines 22-25: no snapshot is closed and
\* nothing is recorded.
MCInit ==
    /\ snapshots = <<>>
    /\ mcClosed = <<>>
    /\ mcSince = [requests |-> 0, errors |-> 0, rateLimitBreaches |-> 0]
    /\ mcEvents = 0

PctIdle ==
    /\ pctValues = <<>>
    /\ pctResult = [percentile |-> 0, value |-> 0]
    /\ MCInit

\* Any bounded sequence of latencies, not yet evaluated.
PctInit ==
    /\ pctValues \in BoundedSeq(Latencies, MaxLatencies)
    /\ pctResult = [percentile |-> 0, value |-> 0]
    /\ MCInit

\* getMetrics, lines 80-81 and 98-99: p95 and p99 of the latencies; Math.round
\* leaves the integer durations as they are.
ReportPercentile ==
    /\ \E p \in Percentiles :
         pctResult' = [percentile |-> p, value |-> CalculatePercentile(pctValues, p)]
    /\ UNCHANGED <<pctValues, snapshots, mcClosed, mcSince, mcEvents,
                   now, ticks, cbVars, alertVars, qVars, rlVars, ipVars, gwVars>>

(***************************************************************************)
(* calculatePercentile properties                                          *)
(***************************************************************************)
\* The least integer m with m >= p * n / 100.
LeastAtLeast(p, n) ==
    CHOOSE m \in 0..n : 100 * m >= p * n /\ \A k \in 0..n : 100 * k >= p * n => m <= k
\* v is the element at 0-based position k of the ascending order of values.
IsAtRank(values, k, v) ==
    /\ \E i \in 1..Len(values) : values[i] = v
    /\ Cardinality({i \in 1..Len(values) : values[i] < v}) <= k
    /\ Cardinality({i \in 1..Len(values) : values[i] <= v}) > k

\* C8: the reported percentile is the element at index max(0, ceil(p/100 * n) - 1)
\* of the ascending order of the latencies, 0 for no latencies, and 50 for
\* [10,20,30,40,50] with p = 95 and p = 99.
C8_PercentileIsRankElement ==
    pctResult.percentile \in Percentiles =>
        LET n == Len(pctValues)
            k == Max(0, LeastAtLeast(pctResult.percentile, n) - 1)
        IN  /\ n = 0 => pctResult.value = 0
            /\ n > 0 => IsAtRank(pctValues, k, pctResult.value)
            /\ pctValues = <<10, 20, 30, 40, 50>> => pctResult.value = 50
\* p95 of latencies recorded out of order, with a repeated value.
C8_Witness ==
    /\ pctValues = <<50, 10, 40, 10, 30>>
    /\ pctResult = [percentile |-> 95, value |-> 50]

(***************************************************************************)
(* AlertManager (alerting.ts)                                              *)
(***************************************************************************)
COOLDOWN_MS == 15 * 60 * 1000
ERROR_RATE_THRESHOLD == 10
RATE_LIMIT_BREACH_THRESHOLD == 100
MIN_REQUESTS == 10                      \* line 37: metrics.requests >= 10
ALERT_INTERVAL_MS == 5 * 60 * 1000      \* the alert monitoring setInterval

AlertMaxTicks == 4   \* clock advances explored for the alert manager
AlertMaxCalls == 1   \* checkAndAlert calls awaiting the notification sink
AlertSteps == {ALERT_INTERVAL_MS}

CircuitOpenKey(provider) == "circuit_open_" \o provider
AlertKeys == {"high_error_rate", "excessive_rate_limits"} \cup {CircuitOpenKey(p) : p \in Providers}

\* metrics.providers: the providers reported so far, in insertion order, each with
\* the circuit state last reported for it.
ProviderReports ==
    {r \in BoundedSeq([provider : Providers, circuitState : {"CLOSED", "OPEN"}], 2) :
        /\ \A i, j \in 1..Len(r) : i # j => r[i].provider # r[j].provider
        /\ Len(r) = 2 => (r[1].provider = "gemini" \/ \A i \in 1..2 : r[i].circuitState = "OPEN")}
\* The windows handed to checkAndAlert (getCurrentWindowMetrics): each condition
\* holds in some and fails in others.
WindowMetrics ==
    [requests : {10}, errors : {0, 1}, rateLimitBreaches : {99, 100},
     providers : ProviderReports]

\* getCurrentWindowMetrics line 124 and checkAndAlert line 37:
\* (errors / requests) * 100 >= threshold, with errorRate 0 when requests is 0.
ErrorRateAtLeast_Above(m, threshold) ==
    IF m.requests > 0 THEN m.errors * 100 > threshold * m.requests ELSE 0 > threshold
ErrorRateAtLeast(m, threshold) ==
    IF m.requests > 0 THEN m.errors * 100 >= threshold * m.requests ELSE 0 >= threshold

\* shouldSendAlert, line 98: no state yet, or the cooldown has passed.
CooldownPassed_AtBoundary(states, key, t) ==
    key \notin DOMAIN states \/ t - states[key].lastAlertTime >= COOLDOWN_MS
CooldownPassed(states, key, t) ==
    key \notin DOMAIN states \/ t - states[key].lastAlertTime > COOLDOWN_MS

\* shouldSendAlert, lines 99-102: the state recorded when the alert is let through.
Recorded(states, key, t) ==
    (key :> [lastAlertTime |-> t,
             alertCount |-> (IF key \in DOMAIN states THEN states[key].alertCount ELSE 0) + 1])
    @@ states

\* checkAndAlert, lines 36-86: the keys whose condition holds, in evaluation order.
RECURSIVE OpenCircuitKeys(_)
OpenCircuitKeys(reports) ==
    IF reports = <<>> THEN <<>>
    ELSE (IF Head(reports).circuitState = "OPEN"
          THEN <<CircuitOpenKey(Head(reports).provider)>> ELSE <<>>)
         \o OpenCircuitKeys(Tail(reports))
ConditionKeys(m) ==
    (IF ErrorRateAtLeast(m, ERROR_RATE_THRESHOLD) /\ m.requests >= MIN_REQUESTS
     THEN <<"high_error_rate">> ELSE <<>>)
    \o OpenCircuitKeys(m.providers)
    \o (IF m.rateLimitBreaches >= RATE_LIMIT_BREACH_THRESHOLD
        THEN <<"excessive_rate_limits">> ELSE <<>>)

\* The keys of conds that shouldSendAlert lets through at time t, and alertStates
\* afterwards. Each key occurs at most once in conds.
RECURSIVE LetThrough(_, _, _)
LetThrough(conds, states, t) ==
    IF conds = <<>> THEN <<>>
    ELSE (IF CooldownPassed(states, Head(conds), t) THEN <<Head(conds)>> ELSE <<>>)
         \o LetThrough(Tail(conds), states, t)
RECURSIVE RecordAll(_, _, _)
RecordAll(keys, states, t) ==
    IF keys = <<>> THEN states
    ELSE RecordAll(Tail(keys), Recorded(states, Head(keys), t), t)

Occurrences(seq, x) == Cardinality({i \in 1..Len(seq) : seq[i] = x})

\* sendAlert, lines 109-121, run for every alert of the list up to the first one
\* that waits for the sink: without a webhook all of them, otherwise the first.
StartedNow(alerts) ==
    IF webhookUrl THEN SubSeq(alerts, 1, IF alerts = <<>> THEN 0 ELSE 1) ELSE alerts
NotifiedAfter(started) ==
    [k \in AlertKeys |-> alertNotified[k] + Occurrences(started, k)]

\* The outcome kept in alertLast and the window kept in alertWindow.
SinkEvent(outcome) == IF "sink" \in alertTrack THEN outcome ELSE "none"
WindowEvent(supplied) == IF "window" \in alertTrack THEN supplied ELSE <<>>

\* sendAlert, lines 145-155: a post that is not OK or throws is logged; nothing
\* reaches the loop of checkAndAlert.
Propagates_Throws(outcome) == outcome = "throws"
Propagates(outcome) == FALSE

AlertInit ==
    /\ alertStates = <<>>
    /\ alertCalls = <<>>
    /\ alertFired = [k \in AlertKeys |-> <<>>]
    /\ alertNotified = [k \in AlertKeys |-> 0]
    /\ alertLast = "none"
    /\ alertWindow = <<>>

\* checkAndAlert, lines 33-90, up to the first await of the notification sink.
\* A call in flight holds the alerts not yet handed to sendAlert and whether a
\* post is outstanding.
CheckAndAlertEffect(m) ==
    /\ Len(alertCalls) < AlertMaxCalls
    /\ \E alerts \in {LetThrough(ConditionKeys(m), alertStates, now)} :
         /\ alertStates' = RecordAll(alerts, alertStates, now)
         /\ alertFired' = [k \in AlertKeys |->
                             IF \E i \in 1..Len(alerts) : alerts[i] = k
                             THEN Append(alertFired[k], now)
                             ELSE alertFired[k]]
         /\ alertNotified' = NotifiedAfter(StartedNow(alerts))
         /\ alertCalls' = IF webhookUrl /\ alerts # <<>>
                          THEN Append(alertCalls, Tail(alerts))
                          ELSE alertCalls
    /\ alertLast' = SinkEvent("none")
    /\ alertWindow' = WindowEvent(<<m>>)
    /\ UNCHANGED <<webhookUrl, alertTrack>>
CheckAndAlert(m) ==
    /\ CheckAndAlertEffect(m)
    /\ UNCHANGED <<now, ticks, cbVars, pctVars, qVars, rlVars, ipVars, gwVars>>

\* sendAlert, lines 139-155: the post of call i settles (ok, not ok or thrown: the
\* outcome is only logged), and the loop of lines 89-91 hands the next alert, if
\* any, to sendAlert.
SinkOutcomes == {"ok", "not_ok", "throws"}
AlertPostSettles(i, outcome) ==
    /\ i \in 1..Len(alertCalls)
    /\ outcome \in SinkOutcomes
    /\ LET rest == alertCalls[i]
       IN  IF rest = <<>> \/ Propagates(outcome)
           THEN /\ alertCalls' = SubSeq(alertCalls, 1, i - 1) \o SubSeq(alertCalls, i + 1, Len(alertCalls))
                /\ alertNotified' = alertNotified
           ELSE /\ alertCalls' = [alertCalls EXCEPT ![i] = Tail(rest)]
                /\ alertNotified' = NotifiedAfter(<<Head(rest)>>)
    /\ alertLast' = SinkEvent(outcome)
    /\ alertWindow' = WindowEvent(<<>>)
    /\ UNCHANGED <<alertStates, alertFired, webhookUrl, alertTrack, now, ticks,
                   cbVars, pctVars, qVars, rlVars, ipVars, gwVars>>

AlertTick ==
    /\ Advance(AlertSteps, AlertMaxTicks)
    /\ alertLast' = SinkEvent("none")
    /\ alertWindow' = WindowEvent(<<>>)
    /\ UNCHANGED <<alertStates, alertCalls, alertFired, alertNotified, webhookUrl, alertTrack,
                   cbVars, pctVars, qVars, rlVars, ipVars, gwVars>>

AlertNext ==
    \/ \E m \in WindowMetrics : CheckAndAlert(m)
    \/ \E i \in 1..AlertMaxCalls, o \in SinkOutcomes : AlertPostSettles(i, o)
    \/ AlertTick

\* Windows around the thresholds of lines 37 and 74: error rates of 0, 5, 9.09, 10,
\* 11.1, 18.2 and 22.2 percent on 9, 10, 11 and 20 requests.
ThresholdWindows ==
    {m \in [requests : {0, 9, 10, 11, 20}, errors : {0, 1, 2}, rateLimitBreaches : {99, 100, 101},
            providers : {<<>>}] : m.errors <= m.requests}

\* The same calls for the windows of ThresholdWindows.
AlertThresholdNext ==
    \/ \E m \in ThresholdWindows : CheckAndAlert(m)
    \/ \E i \in 1..AlertMaxCalls, o \in SinkOutcomes : AlertPostSettles(i, o)
    \/ AlertTick

\* The windows of MIN_REQUESTS requests in which at least two alert conditions hold.
SinkWindows ==
    {m \in WindowMetrics : m.requests = MIN_REQUESTS /\ Len(ConditionKeys(m)) >= 2}

\* The same calls for the windows of SinkWindows.
AlertSinkNext ==
    \/ \E m \in SinkWindows : CheckAndAlert(m)
    \/ \E i \in 1..AlertMaxCalls, o \in SinkOutcomes : AlertPostSettles(i, o)
    \/ AlertTick

(***************************************************************************)
(* AlertManager properties                                                 *)
(***************************************************************************)
\* The alerts of key k let through and not yet handed to sendAlert.
AlertsWaiting(k) ==
    LET RECURSIVE Sum(_)
        Sum(i) == IF i = 0 THEN 0 ELSE Occurrences(alertCalls[i], k) + Sum(i - 1)
    IN  Sum(Len(alertCalls))

PostHandled(i) ==
    /\ i \in 1..Len(alertCalls)
    /\ IF alertCalls[i] = <<>>
       THEN /\ alertCalls' = SubSeq(alertCalls, 1, i - 1) \o SubSeq(alertCalls, i + 1, Len(alertCalls))
            /\ alertNotified' = alertNotified
       ELSE /\ alertCalls' = [alertCalls EXCEPT ![i] = Tail(alertCalls[i])]
            /\ alertNotified' =
                   [alertNotified EXCEPT ![Head(alertCalls[i])] = alertNotified[Head(alertCalls[i])] + 1]
C17_FailedPostStep ==
    alertLast' \in {"not_ok", "throws"} =>
        /\ \E i \in 1..AlertMaxCalls : PostHandled(i)
        /\ alertStates' = alertStates
        /\ alertFired' = alertFired
C17_EveryAlertAccounted ==
    \A k \in AlertKeys : alertNotified[k] + AlertsWaiting(k) = Len(alertFired[k])
\* C17: when a post to the sink throws or is answered with a non-OK status, the
\* call of checkAndAlert hands its next alert to sendAlert, or completes if none is
\* left, and the cooldown state stays as recorded; every alert let through is
\* logged by sendAlert or still waits in a call that goes on.
C17_SinkFailureContained == []C17_EveryAlertAccounted /\ [][C17_FailedPostStep]_vars
\* The first post of an evaluation with two alerts threw; the second alert was
\* handed to sendAlert and its post is outstanding.
C17_Witness ==
    /\ alertLast = "throws"
    /\ alertCalls = << <<>> >>
    /\ Cardinality(DOMAIN alertStates) = 2
    /\ \A k \in DOMAIN alertStates : alertNotified[k] = 1

\* Key k fired in this step, at the present time.
FiresNow(k) == alertFired'[k] = Append(alertFired[k], now)
NotTouched(k) ==
    /\ alertFired'[k] = alertFired[k]
    /\ (k \in DOMAIN alertStates') = (k \in DOMAIN alertStates)
    /\ k \in DOMAIN alertStates => alertStates'[k] = alertStates[k]
\* Outside its cooldown key k fires if wanted; otherwise nothing of k changes.
FiresExactlyWhen(k, wanted) ==
    IF wanted
    THEN IF k \in DOMAIN alertStates /\ now - alertStates[k].lastAlertTime <= COOLDOWN_MS
         THEN NotTouched(k) ELSE FiresNow(k)
    ELSE NotTouched(k)
C20_ThresholdStep ==
    alertWindow' # <<>> =>
        \E m \in {alertWindow'[1]} :
            /\ FiresExactlyWhen("high_error_rate",
                                m.requests >= 10 /\ m.errors * 100 >= 10 * m.requests)
            /\ FiresExactlyWhen("excessive_rate_limits", m.rateLimitBreaches >= 100)
            /\ m.requests < 10 => alertFired'["high_error_rate"] = alertFired["high_error_rate"]
\* C20: checkAndAlert takes up high_error_rate exactly for a window with at least 10
\* requests of which at least 10 percent failed, and excessive_rate_limits exactly
\* for a window with at least 100 breaches, both bounds included; a window of fewer
\* than 10 requests never fires high_error_rate.
C20_ThresholdsInclusive == [][C20_ThresholdStep]_vars
\* A window of exactly 10 requests with 1 error and 99 breaches fired high_error_rate
\* and nothing else.
C20_Witness ==
    /\ alertWindow = <<[requests |-> 10, errors |-> 1, rateLimitBreaches |-> 99, providers |-> <<>>]>>
    /\ alertFired["high_error_rate"] = <<now>>
    /\ alertFired["excessive_rate_limits"] = <<>>

(***************************************************************************)
(* RequestQueue (request-queue.ts)                                         *)
(***************************************************************************)
Users == {"u1"}

MAX_CONCURRENT_PER_USER == 3
MAX_QUEUE_SIZE == 10
Q_TIMEOUT_MS == 60 * 1000

QMaxTicks == 1     \* clock advances explored for the queue
QMaxQueued == 11   \* requests put on a waiting list over a run
QMaxLosers == 2    \* pending contenders of settled races followed per user
QRaceMaxWaiting == 1   \* length of the waiting list explored by SpecQueueRace
QSteps == {Q_TIMEOUT_MS, Q_TIMEOUT_MS * 2 + 1}

\* Lines 36 and 106: is there a free slot?
UnderLimit_OffByOne(count) == count <= MAX_CONCURRENT_PER_USER
UnderLimit(count) == count < MAX_CONCURRENT_PER_USER

\* Line 41: is the waiting list full?
QueueFull_OffByOne(queue) == Len(queue) > MAX_QUEUE_SIZE
QueueFull(queue) == Len(queue) >= MAX_QUEUE_SIZE

\* Line 108, queue.shift(): the request taken and the requests left.
Shift_Pop(queue) ==
    [request |-> queue[Len(queue)], rest |-> SubSeq(queue, 1, Len(queue) - 1)]
Shift(queue) == [request |-> Head(queue), rest |-> Tail(queue)]

\* Line 126: has the waiting request expired?
IsStale_AtBoundary(req, t) == t - req.timestamp >= Q_TIMEOUT_MS * 2
IsStale(req, t) == t - req.timestamp > Q_TIMEOUT_MS * 2

\* Line 128: the requests of the waiting list rejected with 'Request expired'.
Expired(queue, t) == {queue[i].id : i \in {j \in 1..Len(queue) : IsStale(queue[j], t)}}

\* Line 125, queue.filter: the requests kept, in their order.
RECURSIVE Filter(_, _)
Filter(queue, t) ==
    IF queue = <<>> THEN <<>>
    ELSE (IF IsStale(Head(queue), t) THEN <<>> ELSE <<Head(queue)>>) \o Filter(Tail(queue), t)

RemoveAt(seq, i) == SubSeq(seq, 1, i - 1) \o SubSeq(seq, i + 1, Len(seq))

\* The state of user u after executeRequest, lines 72-84, has started an operation:
\* the counter is incremented, the operation invoked and its timer set.
Started(st) ==
    [st EXCEPT !.processing = st.processing + 1,
               !.running = Append(st.running, now)]

\* processNext, lines 101-117: release the head of the waiting list if a slot is free.
ProcessNext_NoRelease(st) == [st EXCEPT !.released = 0]
ProcessNext(st) ==
    IF st.queue = <<>> \/ ~UnderLimit(st.processing)
    THEN [st EXCEPT !.released = 0]
    ELSE LET taken == Shift(st.queue)
         IN  Started([st EXCEPT !.queue = taken.rest, !.released = taken.request.id])

\* executeRequest, lines 87-98: the finally block after the race of operation i settled.
Finished_KeepsCount(st, i) ==
    ProcessNext([st EXCEPT !.running = RemoveAt(st.running, i)])
Finished(st, i) ==
    ProcessNext([st EXCEPT !.processing = Max(st.processing, 1) - 1,
                           !.running = RemoveAt(st.running, i)])

UserState(u) ==
    [queue |-> queues[u], processing |-> processing[u], running |-> qRunning[u], released |-> 0]

QSet(u, st, kind, outcome) ==
    /\ queues' = [queues EXCEPT ![u] = st.queue]
    /\ processing' = [processing EXCEPT ![u] = st.processing]
    /\ qRunning' = [qRunning EXCEPT ![u] = st.running]
    /\ qLast' = [kind |-> kind, user |-> u, outcome |-> outcome, released |-> st.released]

\* Line 82: has the timer of an operation started at time start run out at time t?
TimerElapsed_Early(start, t) == t - start >= 0
TimerElapsed_Never(start, t) == FALSE
TimerElapsed(start, t) == t - start >= Q_TIMEOUT_MS

\* Promise.race, lines 79-84: the contender that settles second has no handler
\* left in executeRequest; the state of the user stays as it is.
LoserSettled(st) == st

\* A settled race leaves its other contender pending.
RaceSettled(u) ==
    IF qTrackLosers
    THEN /\ qLosers[u] < QMaxLosers
         /\ qLosers' = [qLosers EXCEPT ![u] = @ + 1]
    ELSE qLosers' = qLosers

QFresh ==
    /\ queues = [u \in Users |-> <<>>]
    /\ processing = [u \in Users |-> 0]
    /\ qRunning = [u \in Users |-> <<>>]
    /\ qNextId = 0
    /\ qLast = [kind |-> "none", user |-> "none", outcome |-> "none", released |-> 0]
    /\ qLosers = [u \in Users |-> 0]
    /\ qExpired = {}
    /\ qAbandoned = [u \in Users |-> 0]

QInit ==
    /\ QFresh
    /\ qTrackLosers = FALSE
    /\ qTrackExpired = FALSE

QRaceInit ==
    /\ QFresh
    /\ qTrackLosers = TRUE
    /\ qTrackExpired = FALSE

\* enqueue, lines 31-70.
QEnqueueEffect(u) ==
    LET st == UserState(u)
    IN  /\ IF UnderLimit(st.processing)
           THEN /\ QSet(u, Started(st), "enqueue", "started")
                /\ qNextId' = qNextId
           ELSE IF QueueFull(st.queue)
           THEN /\ QSet(u, st, "enqueue", "queue_full")
                /\ qNextId' = qNextId
           ELSE /\ qNextId < QMaxQueued
                /\ qNextId' = qNextId + 1
                /\ QSet(u, [st EXCEPT !.queue = Append(st.queue, [id |-> qNextId + 1, timestamp |-> now])],
                        "enqueue", "queued")
        /\ UNCHANGED <<qLosers, qTrackLosers, qTrackExpired, qExpired, qAbandoned>>

QEnqueue(u) ==
    /\ QEnqueueEffect(u)
    /\ UNCHANGED <<now, ticks, cbVars, pctVars, alertVars, rlVars, ipVars, gwVars>>

\* executeRequest, lines 79-98: operation i of user u resolves or rejects before its timer.
QOperationSettlesEffect(u, i, outcome) ==
    /\ i \in 1..Len(qRunning[u])
    /\ outcome \in {"resolved", "rejected"}
    /\ QSet(u, Finished(UserState(u), i), "settle", outcome)
    /\ RaceSettled(u)
    /\ UNCHANGED <<qNextId, qTrackLosers, qTrackExpired, qExpired, qAbandoned>>

QOperationSettles(u, i, outcome) ==
    /\ QOperationSettlesEffect(u, i, outcome)
    /\ UNCHANGED <<now, ticks, cbVars, pctVars, alertVars, rlVars, ipVars, gwVars>>

\* executeRequest, lines 81-98: the timer of operation i of user u fires first.
QTimeoutEffect(u, i) ==
    /\ i \in 1..Len(qRunning[u])
    /\ TimerElapsed(qRunning[u][i], now)
    /\ QSet(u, Finished(UserState(u), i), "timeout", "timeout")
    /\ RaceSettled(u)
    /\ qAbandoned' = IF qTrackLosers THEN [qAbandoned EXCEPT ![u] = @ + 1] ELSE qAbandoned
    /\ UNCHANGED <<qNextId, qTrackLosers, qTrackExpired, qExpired>>

QTimeout(u, i) ==
    /\ QTimeoutEffect(u, i)
    /\ UNCHANGED <<now, ticks, cbVars, pctVars, alertVars, rlVars, ipVars, gwVars>>

\* The contender that lost a race of user u settles: the operation abandoned by a
\* timeout resolves or rejects, or the timer of a completed operation fires.
QLoserSettles(u) ==
    /\ qLosers[u] > 0
    /\ qLosers' = [qLosers EXCEPT ![u] = @ - 1]
    /\ \/ /\ qAbandoned[u] > 0
          /\ qAbandoned' = [qAbandoned EXCEPT ![u] = @ - 1]
       \/ /\ qLosers[u] > qAbandoned[u]
          /\ qAbandoned' = qAbandoned
    /\ QSet(u, LoserSettled(UserState(u)), "loser", "discarded")
    /\ UNCHANGED <<qNextId, qTrackLosers, qTrackExpired, qExpired, now, ticks, cbVars, pctVars, alertVars, rlVars, ipVars, gwVars>>

\* cleanupStale, lines 119-145.
QCleanupStale ==
    /\ queues' = [u \in Users |-> Filter(queues[u], now)]
    /\ qExpired' = IF qTrackExpired
                   THEN qExpired \cup UNION {Expired(queues[u], now) : u \in Users}
                   ELSE qExpired
    /\ qLast' = [kind |-> "sweep", user |-> "none",
                 outcome |-> IF queues' = queues THEN "none" ELSE "expired", released |-> 0]
    /\ UNCHANGED <<processing, qRunning, qNextId, qLosers, qTrackLosers, qTrackExpired, qAbandoned,
                   now, ticks, cbVars, pctVars, alertVars, rlVars, ipVars, gwVars>>

QTick ==
    /\ Advance(QSteps, QMaxTicks)
    /\ qLast' = [kind |-> "tick", user |-> "none", outcome |-> "none", released |-> 0]
    /\ UNCHANGED <<queues, processing, qRunning, qNextId, qLosers, qTrackLosers, qTrackExpired, qExpired, qAbandoned,
                   cbVars, pctVars, alertVars, rlVars, ipVars, gwVars>>

QNext ==
    \/ \E u \in Users : QEnqueue(u)
    \/ \E u \in Users, i \in 1..MAX_CONCURRENT_PER_USER + 1, o \in {"resolved", "rejected"} :
          QOperationSettles(u, i, o)
    \/ \E u \in Users, i \in 1..MAX_CONCURRENT_PER_USER + 1 : QTimeout(u, i)
    \/ QCleanupStale
    \/ QTick

\* The same requests, explored with at most QRaceMaxWaiting requests waiting.
QRaceEnqueue(u) ==
    /\ Len(queues[u]) < QRaceMaxWaiting \/ UnderLimit(processing[u])
    /\ QEnqueue(u)

QRaceNext ==
    \/ \E u \in Users : QRaceEnqueue(u)
    \/ \E u \in Users, i \in 1..MAX_CONCURRENT_PER_USER + 1, o \in {"resolved", "rejected"} :
          QOperationSettles(u, i, o)
    \/ \E u \in Users, i \in 1..MAX_CONCURRENT_PER_USER + 1 : QTimeout(u, i)
    \/ \E u \in Users : QLoserSettles(u)
    \/ QCleanupStale
    \/ QTick

\* The same requests with the rejected ones followed, explored with at most
\* QSweepMaxWaiting requests waiting and clock advances around the age at which
\* a waiting request expires.
QSweepMaxWaiting == 2
QSweepSteps == {Q_TIMEOUT_MS * 2, Q_TIMEOUT_MS * 2 + 1}

QSweepInit ==
    /\ QFresh
    /\ qTrackLosers = FALSE
    /\ qTrackExpired = TRUE

QSweepEnqueue(u) ==
    /\ Len(queues[u]) < QSweepMaxWaiting \/ UnderLimit(processing[u])
    /\ QEnqueue(u)

QSweepTick ==
    /\ Advance(QSweepSteps, QMaxTicks)
    /\ qLast' = [kind |-> "tick", user |-> "none", outcome |-> "none", released |-> 0]
    /\ UNCHANGED <<queues, processing, qRunning, qNextId, qLosers, qTrackLosers, qTrackExpired, qExpired, qAbandoned,
                   cbVars, pctVars, alertVars, rlVars, ipVars, gwVars>>

QSweepNext ==
    \/ \E u \in Users : QSweepEnqueue(u)
    \/ \E u \in Users, i \in 1..MAX_CONCURRENT_PER_USER + 1, o \in {"resolved", "rejected"} :
          QOperationSettles(u, i, o)
    \/ \E u \in Users, i \in 1..MAX_CONCURRENT_PER_USER + 1 : QTimeout(u, i)
    \/ QCleanupStale
    \/ QSweepTick

\* The same requests under the assumption that timers fire: the timer of every
\* operation (line 82), the sweep timer (line 24) and the clock. Requests arrive
\* until QLiveDrainTicks advances of the clock are left, the number of shortest
\* advances after which a waiting request is older than two timeouts; at most
\* QLiveMaxWaiting requests wait. The clock advances by the timeout.
QLiveMaxTicks == 4
QLiveMaxWaiting == 2
QLiveSteps == {Q_TIMEOUT_MS}
QLiveDrainTicks == (Q_TIMEOUT_MS * 2) \div Q_TIMEOUT_MS + 1

QLiveEnqueue(u) ==
    /\ ticks + QLiveDrainTicks <= QLiveMaxTicks
    /\ Len(queues[u]) < QLiveMaxWaiting \/ UnderLimit(processing[u])
    /\ QEnqueue(u)

QLiveTick ==
    /\ Advance(QLiveSteps, QLiveMaxTicks)
    /\ qLast' = [kind |-> "tick", user |-> "none", outcome |-> "none", released |-> 0]
    /\ UNCHANGED <<queues, processing, qRunning, qNextId, qLosers, qTrackLosers, qTrackExpired, qExpired, qAbandoned,
                   cbVars, pctVars, alertVars, rlVars, ipVars, gwVars>>

QLiveTimeout(u) == \E i \in 1..MAX_CONCURRENT_PER_USER + 1 : QTimeout(u, i)

QLiveNext ==
    \/ \E u \in Users : QLiveEnqueue(u)
    \/ \E u \in Users, i \in 1..MAX_CONCURRENT_PER_USER + 1, o \in {"resolved", "rejected"} :
          QOperationSettles(u, i, o)
    \/ \E u \in Users : QLiveTimeout(u)
    \/ QCleanupStale
    \/ QLiveTick

\* Timers eventually fire; operations need not settle.
QLiveFairness ==
    /\ WF_vars(QLiveTick)
    /\ WF_vars(QCleanupStale)
    /\ \A u \in Users : WF_vars(QLiveTimeout(u))

(***************************************************************************)
(* RequestQueue properties                                                 *)
(***************************************************************************)
\* The operations started for user u that have neither completed, failed nor timed out.
InFlight(u) == Len(qRunning[u])
WaitingIds(queue) == {queue[i].id : i \in 1..Len(queue)}
AtCapacity(u) ==
    InFlight(u) = MAX_CONCURRENT_PER_USER /\ Len(queues[u]) = MAX_QUEUE_SIZE

\* C4: at most MAX_CONCURRENT_PER_USER operations of a user are in flight.
C4_InFlightBounded ==
    \A u \in Users : InFlight(u) <= MAX_CONCURRENT_PER_USER
\* All slots taken again right after a timeout released a waiting request.
C4_Witness ==
    \E u \in Users :
        /\ InFlight(u) = MAX_CONCURRENT_PER_USER
        /\ qLast.kind = "timeout" /\ qLast.user = u /\ qLast.released > 0
        /\ queues[u] # <<>>

C5_EnqueueAtCapacity ==
    \A u \in Users :
        (AtCapacity(u) /\ qLast'.kind = "enqueue" /\ qLast'.user = u)
        => /\ qLast'.outcome = "queue_full"
           /\ qRunning'[u] = qRunning[u]
           /\ processing'[u] = processing[u]
           /\ queues'[u] = queues[u]
\* C5: with MAX_CONCURRENT_PER_USER operations in flight and MAX_QUEUE_SIZE requests
\* waiting, an enqueue fails with the queue-full error, starts no operation and
\* leaves the in-flight count and the waiting list unchanged.
C5_QueueFullRejected == [][C5_EnqueueAtCapacity]_vars
\* An enqueue rejected with three operations in flight and ten requests waiting.
C5_Witness ==
    \E u \in Users :
        /\ qLast.kind = "enqueue" /\ qLast.user = u /\ qLast.outcome = "queue_full"
        /\ AtCapacity(u)

C6_InArrivalOrder ==
    \A u \in Users :
        \A i \in 1..(Len(queues[u]) - 1) : queues[u][i].id < queues[u][i + 1].id
C6_ReleasedIsOldest ==
    \A u \in Users :
        /\ qLast'.kind = "sweep" => qRunning'[u] = qRunning[u]
        /\ queues'[u] # queues[u] =>
              \E left \in {WaitingIds(queues'[u])} :
                  IF qLast'.kind = "sweep"
                  THEN \A i \in 1..Len(queues[u]) :
                          queues[u][i].id \notin left => IsStale(queues[u][i], now)
                  ELSE /\ \A i \in 2..Len(queues[u]) : queues[u][i].id \in left
                       /\ (Len(queues[u]) > 0 /\ queues[u][1].id \notin left) =>
                              qLast'.released = queues[u][1].id
\* C6: waiting requests are kept in arrival order, oldest first; outside a sweep
\* only the oldest waiting request leaves the waiting list, and it is the one
\* started; a sweep starts nothing, removes only expired requests and keeps the
\* order of the others.
C6_FifoRelease == []C6_InArrivalOrder /\ [][C6_ReleasedIsOldest]_vars
\* A request other than the first arrival was released, two later arrivals wait.
C6_Witness ==
    \E u \in Users :
        /\ qLast.released > 1
        /\ Len(queues[u]) >= 2
        /\ queues[u][1].id > qLast.released

\* An operation of user u is started in this step.
StartsOperation(u) ==
    /\ qLast'.user = u
    /\ (qLast'.kind = "enqueue" /\ qLast'.outcome = "started") \/ qLast'.released > 0
\* The in-flight count of u after a race settled and perhaps released a request.
CountAfterRace(u) == processing[u] - 1 + (IF qLast'.released > 0 THEN 1 ELSE 0)

C13_CountMatchesRaces ==
    \A u \in Users : processing[u] = Len(qRunning[u])
C13_RaceStep ==
    \A u \in Users :
        /\ StartsOperation(u) =>
              /\ qRunning'[u] # <<>>
              /\ qRunning'[u][Len(qRunning'[u])] = now
        /\ (qLast'.kind = "timeout" /\ qLast'.user = u) =>
              /\ qLast'.outcome = "timeout"
              /\ \E i \in 1..Len(qRunning[u]) : now - qRunning[u][i] >= Q_TIMEOUT_MS
              /\ processing'[u] = CountAfterRace(u)
              /\ qLosers'[u] = qLosers[u] + 1
        /\ (qLast'.kind = "settle" /\ qLast'.user = u) =>
              /\ qLast'.outcome \in {"resolved", "rejected"}
              /\ processing'[u] = CountAfterRace(u)
              /\ qLosers'[u] = qLosers[u] + 1
        /\ (qLast'.kind = "loser" /\ qLast'.user = u) =>
              /\ qLosers'[u] = qLosers[u] - 1
              /\ processing'[u] = processing[u]
              /\ qRunning'[u] = qRunning[u]
              /\ queues'[u] = queues[u]
\* C13: the timer of an operation runs from the step that starts the operation; a
\* race ends with the timeout error only when 60 s have passed since that step, else
\* with the outcome of the operation; either end lowers the in-flight count by one
\* (before a waiting request is released) and leaves one contender pending, whose
\* later settling changes neither the count nor the waiting list; the count always
\* equals the number of operations started and not yet settled or timed out.
C13_RaceAgainstTimer == []C13_CountMatchesRaces /\ [][C13_RaceStep]_vars
\* The contender left by one settled race has settled while that of another race
\* is still pending; a request has waited, and the operations now in flight were
\* all started after the clock had advanced.
C13_Witness ==
    \E u \in Users :
        /\ qLast.kind = "loser" /\ qLast.user = u
        /\ qLosers[u] = 1
        /\ qNextId > 0
        /\ qRunning[u] # <<>>
        /\ \A i \in 1..Len(qRunning[u]) : qRunning[u][i] > StartTime

C31_WaitingMeansFull ==
    \A u \in Users : queues[u] # <<>> => processing[u] = MAX_CONCURRENT_PER_USER
C31_ArrivalStep ==
    \A u \in Users :
        (qLast'.kind = "enqueue" /\ qLast'.user = u /\ qLast'.outcome = "started")
            => (queues[u] = <<>> /\ queues'[u] = <<>>)
\* C31: whenever requests of a user wait, the in-flight count of the user is
\* MAX_CONCURRENT_PER_USER, and an arriving request is started at once only when
\* no request of the user waits.
C31_NoFreeSlotWhileWaiting == []C31_WaitingMeansFull /\ [][C31_ArrivalStep]_vars
\* The sweep rejected some of the waiting requests of a user whose slots were
\* being refilled by releases; the others still wait and the count is at the limit.
C31_Witness ==
    \E u \in Users :
        /\ qLast.kind = "sweep" /\ qLast.outcome = "expired"
        /\ queues[u] # <<>>
        /\ processing[u] = MAX_CONCURRENT_PER_USER
        /\ \E i \in 1..Len(qRunning[u]) : qRunning[u][i] > StartTime
\* A request arrived after a slot had become free with nothing waiting.
C31_WitnessArrival ==
    \E u \in Users :
        /\ qLast.kind = "enqueue" /\ qLast.user = u /\ qLast.outcome = "started"
        /\ qNextId > 0
        /\ queues[u] = <<>>

C32_Settled ==
    \A u \in Users :
        /\ queues[u] = <<>>
        /\ \A i \in 1..Len(qRunning[u]) : now - qRunning[u][i] < Q_TIMEOUT_MS
\* C32: if timers fire, every request put on a waiting list leaves it (released
\* or rejected as expired) and every operation started at least one timeout ago
\* has resolved, failed or timed out, also when no operation ever settles: from
\* some point on no request waits and no operation is older than its timeout.
C32_EveryEnqueueSettles == <>[]C32_Settled
\* The operations started first all hang past their timeout and the sweep has
\* rejected a waiting request before any of their timers fired.
C32_Witness ==
    \E u \in Users :
        /\ qLast.kind = "sweep" /\ qLast.outcome = "expired"
        /\ Len(qRunning[u]) = MAX_CONCURRENT_PER_USER
        /\ \A i \in 1..Len(qRunning[u]) : qRunning[u][i] = StartTime
        /\ queues[u] = <<>>
\* A timeout released the last waiting request of a user.
C32_WitnessReleased ==
    \E u \in Users :
        /\ qLast.kind = "timeout" /\ qLast.user = u /\ qLast.released > 0
        /\ queues[u] = <<>>

\* C30: for every user, the operations invoked through the queue whose work has
\* not finished, those abandoned by a timeout included, never number more than
\* MAX_CONCURRENT_PER_USER.
C30_UnfinishedWithinLimit ==
    \A u \in Users : Len(qRunning[u]) + qAbandoned[u] <= MAX_CONCURRENT_PER_USER

\* The race of an operation of user u ended in this step.
RaceEnds(u) == qLast'.user = u /\ qLast'.kind \in {"settle", "timeout"}
C23_CompletionStep ==
    \A u \in Users :
        RaceEnds(u) =>
            IF queues[u] = <<>>
            THEN /\ processing'[u] = processing[u] - 1
                 /\ Len(qRunning'[u]) = Len(qRunning[u]) - 1
                 /\ queues'[u] = <<>>
                 /\ qLast'.released = 0
            ELSE /\ queues'[u] = Tail(queues[u])
                 /\ qLast'.released = Head(queues[u]).id
                 /\ processing'[u] = processing[u] - 1 + 1
                 /\ Len(qRunning'[u]) = Len(qRunning[u])
                 /\ qRunning'[u][Len(qRunning'[u])] = now
\* C23: when the race of an operation ends (resolved, rejected or timed out), the
\* same step lowers the in-flight count of the user by one and, if requests of the
\* user wait, takes exactly the head of the waiting list and starts its operation,
\* which raises the count by one again; no more than one request is released.
C23_OneReleasePerCompletion == [][C23_CompletionStep]_vars
\* A rejected operation released the head of a waiting list of several requests.
C23_Witness ==
    \E u \in Users :
        /\ qLast.kind = "settle" /\ qLast.user = u /\ qLast.outcome = "rejected"
        /\ qLast.released > 0
        /\ queues[u] # <<>>
        /\ processing[u] = MAX_CONCURRENT_PER_USER
\* An operation resolved with nothing waiting: the count went down.
C23_WitnessNoneWaiting ==
    \E u \in Users :
        /\ qLast.kind = "settle" /\ qLast.user = u /\ qLast.outcome = "resolved"
        /\ qLast.released = 0
        /\ processing[u] = MAX_CONCURRENT_PER_USER - 1

\* The waiting requests of a list that are at most 2 x timeout old, in their order.
NotOlderThanTwoTimeouts(queue) ==
    LET Young(r) == now - r.timestamp <= 2 * Q_TIMEOUT_MS
    IN  SelectSeq(queue, Young)
C24_ExpiredNotWaiting ==
    \A u \in Users : WaitingIds(queues[u]) \cap qExpired = {}
C24_SweepStep ==
    qLast'.kind = "sweep" =>
        /\ \A u \in Users :
              /\ queues'[u] = NotOlderThanTwoTimeouts(queues[u])
              /\ qRunning'[u] = qRunning[u]
              /\ processing'[u] = processing[u]
        /\ qExpired' = qExpired \cup
              UNION {WaitingIds(queues[u]) \ WaitingIds(NotOlderThanTwoTimeouts(queues[u])) : u \in Users}
        /\ qLast'.released = 0
C24_ReleaseStep ==
    qLast'.released > 0 => qLast'.released \notin qExpired'
\* C24: a sweep removes exactly the waiting requests older than 2 x timeout and
\* rejects each of them as expired; it keeps the younger ones in their order and
\* leaves the operations in flight and the in-flight counts as they are; a
\* request rejected as expired is never waiting again and never started.
C24_SweepExpiresExactlyTheOld ==
    []C24_ExpiredNotWaiting /\ [][C24_SweepStep /\ C24_ReleaseStep]_vars
\* A sweep has rejected an old request and kept a younger one behind it, with all
\* slots taken.
C24_Witness ==
    \E u \in Users :
        /\ qLast.kind = "sweep" /\ qLast.outcome = "expired"
        /\ qExpired # {}
        /\ queues[u] # <<>>
        /\ \A i \in 1..Len(queues[u]) : \A x \in qExpired : x < queues[u][i].id
        /\ InFlight(u) = MAX_CONCURRENT_PER_USER
\* A sweep has kept a request that is exactly 2 x timeout old.
C24_WitnessBoundary ==
    \E u \in Users :
        /\ qLast.kind = "sweep" /\ qLast.outcome = "none"
        /\ \E i \in 1..Len(queues[u]) : now - queues[u][i].timestamp = 2 * Q_TIMEOUT_MS
\* A waiting request is released after an older one was rejected as expired.
C24_WitnessLaterRelease ==
    qLast.released > 0 /\ qExpired # {}

(***************************************************************************)
(* RateLimiter (rate-limiter.ts)                                           *)
(***************************************************************************)
WINDOW_MS == 24 * 60 * 60 * 1000
CACHE_TTL_MS == 60 * 1000
DB_SYNC_INTERVAL == 10
DAILY_LIMIT == 50
SYNC_AGE_MS == 5 * 60 * 1000
RL_CLEANUP_INTERVAL_MS == 5 * 60 * 1000

RLMaxTicks == 2     \* clock advances explored
RLMaxCalls == 1     \* checkLimit calls that may be suspended at the same time
RLMaxAdmitted == 11 \* admissions per user explored by SpecRLFirst
\* The clock moves by one millisecond more than the cache TTL, or by the period
\* of the cleanup timer.
RLSteps == {CACHE_TTL_MS + 1, RL_CLEANUP_INTERVAL_MS}

\* The checkLimit calls followed, and the entry objects they and the cache can hold.
RLSlots == DOMAIN rlCalls
RLObjects == 1..(Cardinality(DOMAIN rlCalls) + Cardinality(Users))

\* new Date().toISOString().split('T')[0]: the UTC calendar day, as a day number.
RequestDate(t) == t \div DAY_MS

RLIdle == [pc |-> "idle", user |-> "none", now |-> 0, entry |-> 0, date |-> 0, count |-> 0]

FetchFromDB_FailClosed(db, u, date, failed, t) ==
    [count       |-> IF failed THEN DAILY_LIMIT
                     ELSE IF <<u, date>> \in DOMAIN db THEN db[<<u, date>>] ELSE 0,
     windowStart |-> t,
     lastUpdated |-> t,
     dbSyncCount |-> 0]
\* fetchFromDB, lines 63-99: the row of (user, today) if the read succeeds and
\* finds one, else a zero count; the window and the age start at the time t of
\* the return.
FetchFromDB(db, u, date, failed, t) ==
    [count       |-> IF ~failed /\ <<u, date>> \in DOMAIN db THEN db[<<u, date>>] ELSE 0,
     windowStart |-> t,
     lastUpdated |-> t,
     dbSyncCount |-> 0]

\* syncToDB, lines 101-125: upsert of the count under (user, today).
SyncToDB(db, u, date, count, failed) ==
    IF failed THEN db
    ELSE [k \in DOMAIN db \cup {<<u, date>>} |->
              IF k = <<u, date>> THEN count ELSE db[k]]

CacheExpired(e, t) == t - e.lastUpdated > CACHE_TTL_MS
NeedsFetch(cache, heap, u, t) == cache[u] = 0 \/ CacheExpired(heap[cache[u]], t)

\* Lines 38-42.
WindowReset(e, t) ==
    IF t - e.windowStart > WINDOW_MS
    THEN [e EXCEPT !.count = 0, !.windowStart = t, !.dbSyncCount = 0]
    ELSE e
\* Line 44.
Allowed_AtLimit(e) == e.count <= DAILY_LIMIT
Allowed(e) == e.count < DAILY_LIMIT
\* Lines 47-49.
Admit(e, t) == [e EXCEPT !.count = @ + 1, !.dbSyncCount = @ + 1, !.lastUpdated = t]
\* Lines 52-53.
SyncDue(e, t) == e.dbSyncCount >= DB_SYNC_INTERVAL \/ t - e.windowStart > SYNC_AGE_MS
\* Line 59.
Remaining(e) == Max(0, DAILY_LIMIT - e.count)

\* The objects reachable from the cache or from a suspended call.
Live(cache, calls) ==
    ({cache[u] : u \in Users} \cup {calls[s].entry : s \in RLSlots}) \ {0}
Collect(heap, cache, calls) ==
    [o \in DOMAIN heap \cap Live(cache, calls) |-> heap[o]]
NewObject(heap) == CHOOSE o \in RLObjects \ DOMAIN heap :
                       \A other \in RLObjects \ DOMAIN heap : o <= other

\* The admissions of a user within the last 24 hours, counted from the first.
CountAdmission(u) ==
    IF rlAdmitted[u] = 0 \/ now - rlAnchor[u] >= WINDOW_MS
    THEN /\ rlAnchor' = [rlAnchor EXCEPT ![u] = now]
         /\ rlAdmitted' = [rlAdmitted EXCEPT ![u] = 1]
    ELSE /\ rlAdmitted' = [rlAdmitted EXCEPT ![u] = IF @ > DAILY_LIMIT THEN @ ELSE @ + 1]
         /\ UNCHANGED rlAnchor

\* store: how the read or write this step settled went ("none": no store access).
RLReturn(u, allowed, remaining, store) ==
    [kind |-> "return", user |-> u, allowed |-> allowed, remaining |-> remaining,
     store |-> store]
RLEvent(kind, u, store) ==
    [kind |-> kind, user |-> u, allowed |-> FALSE, remaining |-> 0, store |-> store]
\* What the read of fetchFromDB found, lines 73 and 90.
ReadOutcome(db, u, date, failed) ==
    IF failed THEN "failed" ELSE IF <<u, date>> \in DOMAIN db THEN "row" ELSE "norow"
WriteOutcome(failed) == IF failed THEN "failed" ELSE "written"

\* checkLimit from line 37 to its return or to the await of line 54, for the
\* call in slot s that captured the time t and holds the entry object obj.
Decide(s, u, t, obj, heap, cache, store) ==
    \E e \in {WindowReset(heap[obj], t)} :
        IF Allowed(e)
        THEN \E a \in {Admit(e, t)} :
                /\ CountAdmission(u)
                /\ IF SyncDue(a, t)
                   THEN /\ rlCalls' = [rlCalls EXCEPT ![s] =
                                [pc |-> "syncing", user |-> u, now |-> t, entry |-> obj,
                                 date |-> RequestDate(now), count |-> a.count]]
                        /\ rlHeap' = [heap EXCEPT ![obj] = a]
                        /\ rlLast' = RLEvent("admitted", u, store)
                   ELSE /\ rlCalls' = [rlCalls EXCEPT ![s] = RLIdle]
                        /\ rlHeap' = Collect([heap EXCEPT ![obj] = a], cache, rlCalls')
                        /\ rlLast' = RLReturn(u, TRUE, Remaining(a), store)
        ELSE /\ rlCalls' = [rlCalls EXCEPT ![s] = RLIdle]
             /\ rlHeap' = Collect([heap EXCEPT ![obj] = e], cache, rlCalls')
             /\ rlLast' = RLReturn(u, FALSE, Remaining(e), store)
             /\ UNCHANGED <<rlAnchor, rlAdmitted>>

\* The constructor, lines 18-23, with `calls` checkLimit calls followed.
RLFresh(calls) ==
    /\ rlCache = [u \in Users |-> 0]
    /\ rlHeap = <<>>
    /\ rlCalls = [s \in 1..calls |-> RLIdle]
    /\ rlDb = <<>>
    /\ rlAnchor = [u \in Users |-> 0]
    /\ rlAdmitted = [u \in Users |-> 0]
    /\ rlStoreFailed = FALSE
    /\ rlLast = RLEvent("none", "none", "none")

RLInit == RLFresh(RLMaxCalls)
\* Calls made one after the other: one call is followed at a time.
RLSeqInit == RLFresh(1)
\* Calls of the same process that overlap at the awaits of lines 34 and 54.
RLOverlapCalls == 2
RLOverlapInit == RLFresh(RLOverlapCalls)

\* checkLimit, lines 25-33 and, on a fresh cache entry, on to its return or to
\* the await of line 54.
RLCheckLimitEffect(s, u) ==
    /\ rlCalls[s].pc = "idle"
    /\ IF NeedsFetch(rlCache, rlHeap, u, now)
       THEN /\ rlCalls' = [rlCalls EXCEPT ![s] =
                    [pc |-> "fetching", user |-> u, now |-> now, entry |-> 0,
                     date |-> RequestDate(now), count |-> 0]]
            /\ rlLast' = RLEvent("fetching", u, "none")
            /\ UNCHANGED <<rlCache, rlHeap, rlAnchor, rlAdmitted>>
       ELSE /\ Decide(s, u, now, rlCache[u], rlHeap, rlCache, "none")
            /\ UNCHANGED rlCache
    /\ UNCHANGED <<rlDb, rlStoreFailed>>

RLCheckLimit(s, u) ==
    /\ RLCheckLimitEffect(s, u)
    /\ UNCHANGED <<now, ticks, cbVars, pctVars, alertVars, qVars, ipVars, gwVars>>

\* The read of fetchFromDB settles: line 34, then lines 37-61 as above.
RLFetchSettlesEffect(s, failed) ==
    /\ rlCalls[s].pc = "fetching"
    /\ LET u   == rlCalls[s].user
           obj == NewObject(rlHeap)
           e   == FetchFromDB(rlDb, u, rlCalls[s].date, failed, now)
           heap  == [o \in DOMAIN rlHeap \cup {obj} |-> IF o = obj THEN e ELSE rlHeap[o]]
           cache == [rlCache EXCEPT ![u] = obj]
       IN  /\ rlCache' = cache
           /\ Decide(s, u, rlCalls[s].now, obj, heap, cache,
                     ReadOutcome(rlDb, u, rlCalls[s].date, failed))
    /\ rlStoreFailed' = (rlStoreFailed \/ failed)
    /\ UNCHANGED <<rlDb>>

RLFetchSettles(s, failed) ==
    /\ RLFetchSettlesEffect(s, failed)
    /\ UNCHANGED <<now, ticks, cbVars, pctVars, alertVars, qVars, ipVars, gwVars>>

\* The upsert of syncToDB settles: lines 55-60.
RLSyncSettlesEffect(s, failed) ==
    /\ rlCalls[s].pc = "syncing"
    /\ LET u   == rlCalls[s].user
           obj == rlCalls[s].entry
           e   == [rlHeap[obj] EXCEPT !.dbSyncCount = 0]
       IN  /\ rlDb' = SyncToDB(rlDb, u, rlCalls[s].date, rlCalls[s].count, failed)
           /\ rlCalls' = [rlCalls EXCEPT ![s] = RLIdle]
           /\ rlHeap' = Collect([rlHeap EXCEPT ![obj] = e], rlCache, rlCalls')
           /\ rlLast' = RLReturn(u, TRUE, Remaining(e), WriteOutcome(failed))
    /\ rlStoreFailed' = (rlStoreFailed \/ failed)
    /\ UNCHANGED <<rlCache, rlAnchor, rlAdmitted>>

RLSyncSettles(s, failed) ==
    /\ RLSyncSettlesEffect(s, failed)
    /\ UNCHANGED <<now, ticks, cbVars, pctVars, alertVars, qVars, ipVars, gwVars>>

\* cleanup, lines 127-141, on the timer of line 21.
RLCleanup ==
    /\ now - StartTime >= RL_CLEANUP_INTERVAL_MS
    /\ rlCache' = [u \in Users |->
                      IF rlCache[u] # 0 /\ now - rlHeap[rlCache[u]].lastUpdated > CACHE_TTL_MS * 2
                      THEN 0 ELSE rlCache[u]]
    /\ rlHeap' = Collect(rlHeap, rlCache', rlCalls)
    /\ rlLast' = RLEvent("sweep", "none", "none")
    /\ UNCHANGED <<rlCalls, rlDb, rlAnchor, rlAdmitted, rlStoreFailed,
                   now, ticks, cbVars, pctVars, alertVars, qVars, ipVars, gwVars>>

RLTick ==
    /\ Advance(RLSteps, RLMaxTicks)
    /\ rlLast' = RLEvent("tick", "none", "none")
    /\ UNCHANGED <<rlCache, rlHeap, rlCalls, rlDb, rlAnchor, rlAdmitted, rlStoreFailed,
                   cbVars, pctVars, alertVars, qVars, ipVars, gwVars>>

RLNext ==
    \/ \E s \in RLSlots, u \in Users : RLCheckLimit(s, u)
    \/ \E s \in RLSlots, failed \in BOOLEAN : RLFetchSettles(s, failed)
    \/ \E s \in RLSlots, failed \in BOOLEAN : RLSyncSettles(s, failed)
    \/ RLCleanup
    \/ RLTick

\* The same calls, explored for the first RLMaxAdmitted admissions of each user.
RLFirstCalls(s, u) ==
    /\ rlAdmitted[u] < RLMaxAdmitted
    /\ RLCheckLimit(s, u)

RLFirstNext ==
    \/ \E s \in RLSlots, u \in Users : RLFirstCalls(s, u)
    \/ \E s \in RLSlots, failed \in BOOLEAN : RLFetchSettles(s, failed)
    \/ \E s \in RLSlots, failed \in BOOLEAN : RLSyncSettles(s, failed)
    \/ RLCleanup
    \/ RLTick

(***************************************************************************)
(* RateLimiter properties                                                  *)
(***************************************************************************)
\* C1: as long as every read and write of the durable store succeeds, no user is
\* admitted more than DAILY_LIMIT times within 24 hours of an admission, and a
\* call that is denied after DAILY_LIMIT admissions returns remaining = 0.
C1_DailyLimitEnforced ==
    ~rlStoreFailed =>
        \A u \in Users :
            /\ rlAdmitted[u] <= DAILY_LIMIT
            /\ (rlLast.kind = "return" /\ rlLast.user = u /\ ~rlLast.allowed) =>
                   rlLast.remaining = 0

\* The read of the call in slot s settles in this step.
ReadSettles(s) == rlCalls[s].pc = "fetching" /\ rlCalls'[s].pc # "fetching"
\* The write of the call in slot s settles in this step.
WriteSettles(s) == rlCalls[s].pc = "syncing" /\ rlCalls'[s].pc # "syncing"

C11_ReadFailsOpen ==
    \A s \in RLSlots :
        (ReadSettles(s) /\ rlLast'.store \in {"failed", "norow"}) =>
            /\ rlLast' = RLReturn(rlCalls[s].user, TRUE, DAILY_LIMIT - 1, rlLast'.store)
            /\ rlHeap'[rlCache'[rlCalls[s].user]].count = 1
C11_WriteOutcomeIgnored ==
    \A s \in RLSlots :
        WriteSettles(s) =>
            /\ rlLast'.store \in {"failed", "written"}
            /\ rlLast' = RLReturn(rlCalls[s].user, TRUE,
                                  Max(0, DAILY_LIMIT - rlHeap[rlCalls[s].entry].count),
                                  rlLast'.store)
            /\ rlHeap[rlCalls[s].entry].count >= rlCalls[s].count
            /\ rlCache' = rlCache
            /\ \A o \in DOMAIN rlHeap' : rlHeap'[o].count = rlHeap[o].count
\* C11: a checkLimit call whose store read fails or finds no row returns
\* allowed = true from an entry that started at count 0 (remaining 49, count 1);
\* a call whose store write settles returns allowed = true and the remaining quota
\* of its entry whether the write failed or not, and no in-memory count changes.
C11_StoreNeverFailsTheCall ==
    [][C11_ReadFailsOpen /\ C11_WriteOutcomeIgnored]_vars
\* The write of the tenth admission failed, the call returned remaining 40 and the
\* store, which had no row when the entry was read, still has none.
C11_Witness ==
    /\ rlLast.kind = "return"
    /\ rlLast.store = "failed"
    /\ rlLast.allowed
    /\ rlLast.remaining = DAILY_LIMIT - DB_SYNC_INTERVAL
    /\ rlDb = <<>>
    /\ \E u \in Users : rlCache[u] # 0 /\ rlHeap[rlCache[u]].count = DB_SYNC_INTERVAL

C12_EntryKeepsWindow ==
    \A u \in Users :
        (~rlStoreFailed' /\ rlCache[u] # 0 /\ rlCache'[u] # 0) =>
            \E old \in {rlHeap[rlCache[u]]}, new \in {rlHeap'[rlCache'[u]]} :
                (new.windowStart # old.windowStart \/ new.count < old.count) =>
                    now - old.windowStart > WINDOW_MS
\* C12: as long as no store access fails, the windowStart of a user's entry changes
\* and its count goes down only in a step taken more than 24 hours after that
\* windowStart; in particular not when the entry is refreshed from the store.
C12_WindowAnchoredAtFirstUse == [][C12_EntryKeepsWindow]_vars

C27_CountsWithinLimit ==
    /\ \A o \in DOMAIN rlHeap : rlHeap[o].count >= 0 /\ rlHeap[o].count <= DAILY_LIMIT
    /\ \A u \in Users : rlCache[u] # 0 => rlCache[u] \in DOMAIN rlHeap
    /\ rlLast.kind = "return" => (rlLast.remaining >= 0 /\ rlLast.remaining <= DAILY_LIMIT)
C27_ReturnStep ==
    rlLast'.kind = "return" =>
        IF \E s \in RLSlots : WriteSettles(s)
        THEN \A s \in RLSlots :
                WriteSettles(s) =>
                    rlLast'.remaining = DAILY_LIMIT - rlHeap[rlCalls[s].entry].count
        ELSE rlLast'.remaining = DAILY_LIMIT - rlHeap'[rlCache'[rlLast'.user]].count
\* C27: every RateLimitEntry held by the cache or by a call has a count from 0 to
\* DAILY_LIMIT, entries read from the store included, and every checkLimit call
\* returns remaining = DAILY_LIMIT - count of its entry, from 0 to DAILY_LIMIT.
C27_CountAndRemainingInRange == []C27_CountsWithinLimit /\ [][C27_ReturnStep]_vars
\* A call denied on an entry just read from the store with the count at the limit.
C27_Witness ==
    /\ rlLast.kind = "return" /\ ~rlLast.allowed
    /\ rlLast.store = "row"
    /\ rlLast.remaining = 0
    /\ \E u \in Users : rlCache[u] # 0 /\ rlHeap[rlCache[u]].count = DAILY_LIMIT
\* The call that takes the last of the quota returns remaining 0.
C27_WitnessLastAdmission ==
    /\ rlLast.kind = "return" /\ rlLast.allowed
    /\ rlLast.remaining = 0

\* The largest count the store holds for the user, 0 without a row.
StoredCount(u) ==
    LET rows == {rlDb[k] : k \in {r \in DOMAIN rlDb : r[1] = u}}
    IN  IF rows = {} THEN 0 ELSE CHOOSE c \in rows : \A d \in rows : d <= c
\* C28: the count is written on the admission that makes DB_SYNC_INTERVAL
\* admissions since the last write, so once every call has returned and no store
\* access has failed, the store is less than DB_SYNC_INTERVAL behind the
\* admissions of the window, also after the cache entry was refreshed.
C28_StoreLagBelowInterval ==
    \A u \in Users :
        (/\ \A s \in RLSlots : rlCalls[s].pc = "idle"
         /\ ~rlStoreFailed
         /\ now - rlAnchor[u] < WINDOW_MS)
        => rlAdmitted[u] - StoredCount(u) < DB_SYNC_INTERVAL

C37_ReturnStep ==
    \A u \in Users :
        (/\ rlLast'.kind = "return" /\ rlLast'.user = u
         /\ rlCache[u] # 0
         /\ rlAdmitted[u] > 0 /\ now - rlAnchor[u] < WINDOW_MS
         /\ ~rlStoreFailed')
        => rlLast'.remaining <= Remaining(rlHeap[rlCache[u]])
\* C37: within 24 hours of the first admission of a user, with calls made one
\* after the other and no failed store access, a checkLimit call never returns
\* a larger remaining than the entry cached by the call before allowed for: the
\* count does not go down, also not when the entry is read again from the store.
C37_RemainingNeverGrows == [][C37_ReturnStep]_vars

\* C29: when checkLimit calls of a user overlap, every admitted call adds one to
\* the cached count: once all have returned, with nothing in the store and the
\* entry neither expired nor swept, the cached count is the number of admissions.
C29_NoLostUpdate ==
    \A u \in Users :
        (/\ \A s \in RLSlots : rlCalls[s].pc = "idle"
         /\ rlCache[u] # 0
         /\ rlDb = <<>>
         /\ ~rlStoreFailed
         /\ now = StartTime)
        => rlHeap[rlCache[u]].count = rlAdmitted[u]

(***************************************************************************)
(* IPRateLimiter (rate-limiter.ts)                                         *)
(***************************************************************************)
IP_WINDOW_MS == 60 * 60 * 1000
HOURLY_LIMIT == 100
BURST_LIMIT == 50
BURST_WINDOW_MS == 10 * 1000
IP_CLEANUP_INTERVAL_MS == 10 * 60 * 1000

HOURLY_REASON == "Hourly IP limit exceeded. Try again later."
BURST_REASON == "Burst traffic detected. Please slow down."

\* One client address, and the empty address of a request without one.
Addresses == {"10.0.0.1"}
NoAddress == ""

IPMaxTicks == 3         \* clock advances explored
IPMaxViolations == 2    \* burst rejections explored per entry
\* The clock moves by the length of the burst window or just past the hour.
IPSteps == {BURST_WINDOW_MS, IP_WINDOW_MS + 1}

\* Line 176: no entry, or the window of the entry is over.
IPWindowOver(cache, ip, t) ==
    ip \notin DOMAIN cache \/ t - cache[ip].windowStart > IP_WINDOW_MS
\* Lines 177-181.
NewIPEntry(t) == [count |-> 0, windowStart |-> t, violations |-> 0]
\* Line 186.
IsBurst(e, t) == e.count > BURST_LIMIT /\ t - e.windowStart < BURST_WINDOW_MS
\* Line 193.
OverHourly_Above(e) == e.count > HOURLY_LIMIT
OverHourly(e) == e.count >= HOURLY_LIMIT

IPPut(cache, ip, e) == [i \in DOMAIN cache \cup {ip} |-> IF i = ip THEN e ELSE cache[i]]

IPResult(ip, allowed, reason) ==
    [kind |-> "check", ip |-> ip, allowed |-> allowed, reason |-> reason]
IPEvent(kind) == [kind |-> kind, ip |-> "none", allowed |-> FALSE, reason |-> "none"]

\* The admissions of an address within a span of time counted from the first one:
\* the span is over once more than `span` (or, if `open`, at least `span`) has passed.
Counted(c, t, span, open, cap) ==
    IF c.admitted = 0 \/ t - c.start > span \/ (open /\ t - c.start = span)
    THEN [start |-> t, admitted |-> 1]
    ELSE [c EXCEPT !.admitted = IF @ > cap THEN @ ELSE @ + 1]

IPAdmitted(ip) ==
    /\ ipHour' = [ipHour EXCEPT ![ip] = Counted(@, now, IP_WINDOW_MS, FALSE, HOURLY_LIMIT)]
    /\ ipBurst' = [ipBurst EXCEPT ![ip] = Counted(@, now, BURST_WINDOW_MS, TRUE, BURST_LIMIT)]

IPInit ==
    /\ ipCache = <<>>
    /\ ipShadow = <<>>
    /\ ipHour = [ip \in Addresses |-> [start |-> 0, admitted |-> 0]]
    /\ ipBurst = [ip \in Addresses |-> [start |-> 0, admitted |-> 0]]
    /\ ipLast = IPEvent("none")

\* checkLimit, lines 170-199, as a function of the cache: the cache it leaves and
\* the result it returns.
IPCheckOn(cache, ip, t) ==
    IF ip = NoAddress
    THEN [cache |-> cache, allowed |-> TRUE, reason |-> "none"]
    ELSE LET e == IF IPWindowOver(cache, ip, t) THEN NewIPEntry(t) ELSE cache[ip]
         IN  IF IsBurst(e, t)
             THEN [cache |-> IPPut(cache, ip, [e EXCEPT !.violations = @ + 1]),
                   allowed |-> FALSE, reason |-> BURST_REASON]
             ELSE IF OverHourly(e)
             THEN [cache |-> IPPut(cache, ip, e), allowed |-> FALSE, reason |-> HOURLY_REASON]
             ELSE [cache |-> IPPut(cache, ip, [e EXCEPT !.count = @ + 1]),
                   allowed |-> TRUE, reason |-> "none"]

\* cleanup, line 204: is the entry evicted?
Evictable_WithinWindow(e, t) == t - e.windowStart >= BURST_WINDOW_MS
Evictable(e, t) == t - e.windowStart > IP_WINDOW_MS * 2

\* checkLimit, lines 170-199.
IPCheckLimitEffect(ip) ==
    /\ ipShadow' = IPCheckOn(ipShadow, ip, now).cache
    /\ IF ip = NoAddress
       THEN /\ ipLast' = IPResult(ip, TRUE, "none")
            /\ UNCHANGED <<ipCache, ipHour, ipBurst>>
       ELSE \E e \in {IF IPWindowOver(ipCache, ip, now) THEN NewIPEntry(now) ELSE ipCache[ip]} :
                IF IsBurst(e, now)
                THEN /\ e.violations < IPMaxViolations
                     /\ ipCache' = IPPut(ipCache, ip, [e EXCEPT !.violations = @ + 1])
                     /\ ipLast' = IPResult(ip, FALSE, BURST_REASON)
                     /\ UNCHANGED <<ipHour, ipBurst>>
                ELSE IF OverHourly(e)
                THEN /\ ipCache' = IPPut(ipCache, ip, e)
                     /\ ipLast' = IPResult(ip, FALSE, HOURLY_REASON)
                     /\ UNCHANGED <<ipHour, ipBurst>>
                ELSE /\ ipCache' = IPPut(ipCache, ip, [e EXCEPT !.count = @ + 1])
                     /\ ipLast' = IPResult(ip, TRUE, "none")
                     /\ IPAdmitted(ip)

IPCheckLimit(ip) ==
    /\ IPCheckLimitEffect(ip)
    /\ UNCHANGED <<now, ticks, cbVars, pctVars, alertVars, qVars, rlVars, gwVars>>

\* cleanup, lines 201-208, on the timer of line 163.
IPCleanup ==
    /\ now - StartTime >= IP_CLEANUP_INTERVAL_MS
    /\ ipCache' = [i \in {j \in DOMAIN ipCache : ~Evictable(ipCache[j], now)}
                      |-> ipCache[i]]
    /\ ipLast' = IPEvent("sweep")
    /\ UNCHANGED <<ipShadow, ipHour, ipBurst, now, ticks, cbVars, pctVars, alertVars, qVars, rlVars, gwVars>>

IPTick ==
    /\ Advance(IPSteps, IPMaxTicks)
    /\ ipLast' = IPEvent("tick")
    /\ UNCHANGED <<ipCache, ipShadow, ipHour, ipBurst, cbVars, pctVars, alertVars, qVars, rlVars, gwVars>>

IPNext ==
    \/ \E ip \in Addresses \cup {NoAddress} : IPCheckLimit(ip)
    \/ IPCleanup
    \/ IPTick

(***************************************************************************)
(* IPRateLimiter properties                                                *)
(***************************************************************************)
\* A checkLimit call for ip is the step being taken.
IPChecked(ip) == ipLast'.kind = "check" /\ ipLast'.ip = ip
\* The entry of ip exists and its window is not over.
InIPWindow(ip) == ~IPWindowOver(ipCache, ip, now)

C14_AtMostHourlyLimit ==
    \A ip \in Addresses : ipHour[ip].admitted <= HOURLY_LIMIT
C14_DeniedAtLimit ==
    \A ip \in Addresses :
        (IPChecked(ip) /\ InIPWindow(ip) /\ ipCache[ip].count >= HOURLY_LIMIT) =>
            /\ ipLast' = IPResult(ip, FALSE, HOURLY_REASON)
            /\ ipCache'[ip] = ipCache[ip]
\* C14: no address is admitted more than HOURLY_LIMIT times within an hour of an
\* admission; a call for an address whose count has reached the limit, in the window
\* of its entry, is denied with the hourly reason and leaves the entry as it is.
C14_HourlyCap == []C14_AtMostHourlyLimit /\ [][C14_DeniedAtLimit]_vars
\* A call was denied with the hourly reason after 100 admissions in the hour.
C14_Witness ==
    \E ip \in Addresses :
        /\ ipLast = IPResult(ip, FALSE, HOURLY_REASON)
        /\ ipHour[ip].admitted = HOURLY_LIMIT
        /\ ipCache[ip].count = HOURLY_LIMIT

C15_AtMostBurstLimit ==
    \A ip \in Addresses : ipBurst[ip].admitted <= BURST_LIMIT
C15_BurstDenied ==
    \A ip \in Addresses :
        (IPChecked(ip) /\ ipBurst[ip].admitted >= BURST_LIMIT
                       /\ now - ipBurst[ip].start < BURST_WINDOW_MS) =>
            /\ ipLast' = IPResult(ip, FALSE, BURST_REASON)
            /\ BURST_REASON # HOURLY_REASON
            /\ ipCache'[ip].violations = ipCache[ip].violations + 1
\* C15: no address is admitted more than BURST_LIMIT times within 10 s of an
\* admission; a call that follows BURST_LIMIT admissions inside those 10 s is denied
\* with the burst reason, which differs from the hourly one, and adds one to the
\* violations of the entry.
C15_BurstCap == []C15_AtMostBurstLimit /\ [][C15_BurstDenied]_vars

\* The cache holds the entries of the sweep-free cache, except entries whose window
\* is over twice: those the next checkLimit replaces whether they are there or not.
C39_OnlyDeadEntriesMissing ==
    /\ DOMAIN ipCache \subseteq DOMAIN ipShadow
    /\ \A ip \in DOMAIN ipShadow :
           IF ip \in DOMAIN ipCache
           THEN ipCache[ip] = ipShadow[ip]
           ELSE IPWindowOver(ipShadow, ip, now)
C39_SameResult ==
    \A ip \in Addresses \cup {NoAddress} :
        IPChecked(ip) =>
            /\ ipLast'.allowed = IPCheckOn(ipShadow, ip, now).allowed
            /\ ipLast'.reason = IPCheckOn(ipShadow, ip, now).reason
\* C39: sweeps do not change what checkLimit returns: every call returns the allowed
\* and reason that the same calls, made at the same times on a cache that is never
\* swept, return; the swept cache lacks only entries the next call replaces.
C39_SweepTransparent == []C39_OnlyDeadEntriesMissing /\ [][C39_SameResult]_vars
\* A sweep has evicted an entry that had admitted calls and that the sweep-free
\* cache still holds.
C39_Witness ==
    \E ip \in DOMAIN ipShadow \ DOMAIN ipCache :
        /\ ipShadow[ip].count >= 1
        /\ Evictable(ipShadow[ip], now)
\* A call was admitted on a fresh entry more than two windows after the start, with
\* both caches holding the same entry again.
C39_WitnessChecked ==
    \E ip \in Addresses :
        /\ ipLast = IPResult(ip, TRUE, "none")
        /\ now - StartTime > IP_WINDOW_MS * 2
        /\ ip \in DOMAIN ipCache
        /\ ipCache[ip] = [NewIPEntry(now) EXCEPT !.count = 1]
        /\ ipShadow = ipCache

(***************************************************************************)
(* The request handler (index.ts, serve) and MetricsCollector's counters    *)
(***************************************************************************)
GWMaxRequests == 2   \* requests followed through the handler, one after the other
GWMaxTicks == 1      \* clock advances explored while a request is handled
GWSteps == {Q_TIMEOUT_MS}

\* The stages of a request, in the order of lines 346-458.
StageOrder == <<"ip", "quota", "queue", "breaker", "provider">>

\* createSnapshot, metrics.ts lines 31-39.
CreateSnapshot(t) ==
    [timestamp |-> t, requests |-> 0, errors |-> 0, responseTimes |-> <<>>, rateLimitBreaches |-> 0]
\* recordRequest, recordError, recordRateLimitBreach, updateProviderMetrics: lines 50-65.
RecordRequest(s, durationMs) ==
    [s EXCEPT !.requests = @ + 1, !.responseTimes = Append(@, durationMs)]
RecordError(s) == [s EXCEPT !.errors = @ + 1]
RecordRateLimitBreach(s) == [s EXCEPT !.rateLimitBreaches = @ + 1]
UpdateProviderMetrics(pm, provider, state, failures) ==
    [p \in DOMAIN pm \cup {provider} |->
        IF p = provider THEN [circuitState |-> state, failures |-> failures] ELSE pm[p]]

\* No request in the handler.
GWNoRequest ==
    [pos |-> "idle", startTime |-> 0, ip |-> "none", user |-> "none", provider |-> "none",
     invoked |-> FALSE, stages |-> <<>>, denied |-> "none", status |-> 0,
     recordRequest |-> 0, recordError |-> 0, recordRateLimitBreach |-> 0]

\* Lines 349 and 400: the handler goes on only with an allowed result.
Proceeds_Always(allowed) == TRUE
Proceeds(allowed) == allowed

\* The handler returns a response with the given status.
Responds(r, status) == [r EXCEPT !.pos = "done", !.status = status]
Reaches(r, stage) == [r EXCEPT !.stages = Append(@, stage)]
Denied(r, stage) == [r EXCEPT !.denied = stage]

\* part_004 lines 420-512: after checkLimit has returned, neither the way to the
\* response nor the catch block calls the rate limiter again; the entries are as
\* checkLimit left them.
AfterAdmission_Refunds(heap, cache, u) ==
    IF cache[u] # 0 /\ heap[cache[u]].count > 0
    THEN [heap EXCEPT ![cache[u]].count = @ - 1]
    ELSE heap
AfterAdmission(heap, cache, u) == heap
\* The variables of the rate limiter but the entries.
rlRest == <<rlCache, rlCalls, rlDb, rlAnchor, rlAdmitted, rlStoreFailed, rlLast>>

\* Lines 400-417: the quota is used up.
QuotaDenied(r) ==
    /\ gwReq' = Responds([r EXCEPT !.recordRateLimitBreach = @ + 1], 429)
    /\ currentSnapshot' = RecordRateLimitBreach(currentSnapshot)
\* Lines 499-512: the catch block.
Caught(r) ==
    /\ gwReq' = Responds([r EXCEPT !.recordRequest = @ + 1, !.recordError = @ + 1], 500)
    /\ currentSnapshot' = RecordError(RecordRequest(currentSnapshot, now - r.startTime))

\* Lines 398-417, after rateLimiter.checkLimit has returned or has suspended.
AfterCheckLimit(r) ==
    IF rlLast'.kind = "return"
    THEN \E seen \in {IF rlLast'.allowed THEN r ELSE Denied(r, "quota")} :
            IF Proceeds(rlLast'.allowed)
            THEN gwReq' = [seen EXCEPT !.pos = "body"] /\ UNCHANGED currentSnapshot
            ELSE QuotaDenied(seen)
    ELSE gwReq' = [r EXCEPT !.pos = "quota"] /\ UNCHANGED currentSnapshot

\* Lines 333-391, up to the await of supabase.auth.getUser.
GWArrive(method, ip, hasAuth) ==
    /\ gwReq.pos \in {"idle", "done"}
    /\ gwCount < GWMaxRequests
    /\ gwCount' = gwCount + 1
    /\ \E r \in {[GWNoRequest EXCEPT !.startTime = now, !.ip = ip]} :
        IF method = "OPTIONS"
        THEN /\ gwReq' = Responds(r, 200)
             /\ UNCHANGED ipVars
        ELSE /\ IPCheckLimitEffect(ip)
             /\ \E seen \in {IF ipLast'.allowed THEN Reaches(r, "ip")
                                ELSE Denied(Reaches(r, "ip"), "ip")} :
                  gwReq' = IF ~Proceeds(ipLast'.allowed) THEN Responds(seen, 429)
                           ELSE IF ~hasAuth THEN Responds(seen, 401)
                           ELSE [seen EXCEPT !.pos = "auth"]
    /\ UNCHANGED <<now, ticks, cbVars, pctVars, alertVars, qVars, rlVars,
                   currentSnapshot, providerMetrics, gwAbandoned, gwChecks>>

\* Lines 383-398: getUser settles; with a user the handler calls
\* rateLimiter.checkLimit, which returns or suspends on the store.
GWAuthSettles(outcome, u) ==
    /\ gwReq.pos = "auth"
    /\ IF outcome = "user"
       THEN /\ RLCheckLimitEffect(1, u)
            /\ AfterCheckLimit(Reaches([gwReq EXCEPT !.user = u], "quota"))
       ELSE /\ IF outcome = "throws" THEN Caught(gwReq)
               ELSE gwReq' = Responds(gwReq, 401) /\ UNCHANGED currentSnapshot
            /\ UNCHANGED rlVars
    /\ UNCHANGED <<now, ticks, cbVars, pctVars, alertVars, qVars, ipVars,
                   gwCount, providerMetrics, gwAbandoned, gwChecks>>

\* The read of the rate limiter's store settles while the handler awaits checkLimit.
GWFetchSettles(failed) ==
    /\ gwReq.pos = "quota"
    /\ RLFetchSettlesEffect(1, failed)
    /\ AfterCheckLimit(gwReq)
    /\ UNCHANGED <<now, ticks, cbVars, pctVars, alertVars, qVars, ipVars,
                   gwCount, providerMetrics, gwAbandoned, gwChecks>>

\* The write to the rate limiter's store settles while the handler awaits checkLimit.
GWSyncSettles(failed) ==
    /\ gwReq.pos = "quota"
    /\ RLSyncSettlesEffect(1, failed)
    /\ AfterCheckLimit(gwReq)
    /\ UNCHANGED <<now, ticks, cbVars, pctVars, alertVars, qVars, ipVars,
                   gwCount, providerMetrics, gwAbandoned, gwChecks>>

\* Lines 420-458: req.json() settles; a valid body goes to requestQueue.enqueue,
\* whose operation, if started, runs circuitBreaker.execute up to the provider call.
GWBodySettles(body, p) ==
    /\ gwReq.pos = "body"
    /\ IF body = "valid"
       THEN /\ QEnqueueEffect(gwReq.user)
            /\ \E r \in {Reaches([gwReq EXCEPT !.provider = p], "queue")} :
                IF qLast'.outcome = "started"
                THEN /\ CBExecuteEffect(p)
                     /\ gwReq' = IF cbLast'.outcome = "invoked"
                                 THEN [Reaches(Reaches(r, "breaker"), "provider")
                                         EXCEPT !.pos = "running", !.invoked = TRUE]
                                 ELSE [Denied(Reaches(r, "breaker"), "breaker")
                                         EXCEPT !.pos = "running"]
                     /\ UNCHANGED currentSnapshot
                ELSE /\ UNCHANGED cbVars
                     /\ IF qLast'.outcome = "queue_full"
                        THEN Caught(Denied(r, "queue"))
                        ELSE gwReq' = [r EXCEPT !.pos = "waiting"] /\ UNCHANGED currentSnapshot
       ELSE /\ IF body = "malformed" THEN Caught(gwReq)
               ELSE gwReq' = Responds(gwReq, 400) /\ UNCHANGED currentSnapshot
            /\ UNCHANGED <<cbVars, qVars>>
    /\ rlHeap' = AfterAdmission(rlHeap, rlCache, gwReq.user)
    /\ UNCHANGED <<now, ticks, pctVars, alertVars, rlRest, ipVars,
                   gwCount, providerMetrics, gwAbandoned, gwChecks>>

\* The running operation of the request in qRunning: the one started last.
OwnOperation(r, i) == i = Len(qRunning[r.user])

\* Lines 451-497 and the catch block: the operation settles before its timer. A
\* provider call that was made reports to the breaker; a success goes on to
\* getStatus, updateProviderMetrics and recordRequest.
GWOperationSettles(outcome) ==
    /\ gwReq.pos = "running"
    /\ outcome \in {"resolved", "rejected"}
    /\ ~gwReq.invoked => outcome = "rejected"
    /\ \E i \in 1..Len(qRunning[gwReq.user]) :
         /\ OwnOperation(gwReq, i)
         /\ QOperationSettlesEffect(gwReq.user, i, outcome)
    /\ IF gwReq.invoked
       THEN IF outcome = "resolved"
            THEN CBOperationSucceedsEffect(gwReq.provider)
            ELSE CBOperationFailsEffect(gwReq.provider)
       ELSE UNCHANGED cbVars
    /\ IF outcome = "resolved"
       THEN /\ providerMetrics' =
                  UpdateProviderMetrics(providerMetrics, gwReq.provider,
                                        circuits'[CircuitKey(gwReq.provider)].state,
                                        circuits'[CircuitKey(gwReq.provider)].failures)
            /\ currentSnapshot' = RecordRequest(currentSnapshot, now - gwReq.startTime)
            /\ gwReq' = Responds([gwReq EXCEPT !.recordRequest = @ + 1], 200)
       ELSE /\ Caught(gwReq)
            /\ UNCHANGED providerMetrics
    /\ rlHeap' = AfterAdmission(rlHeap, rlCache, gwReq.user)
    /\ UNCHANGED <<now, ticks, pctVars, alertVars, rlRest, ipVars, gwCount, gwAbandoned, gwChecks>>

\* part_001 lines 79-84 with circuit-breaker.ts lines 53-60: the rejection of the
\* timer settles the race of executeRequest only; the try block of execute still
\* awaits the provider call, so the circuits are as they were.
TimedOut_CountsAsFailure(cs, provider, t) ==
    [cs EXCEPT ![CircuitKey(provider)] = OnFailure(@, t)]
TimedOut(cs, provider, t) == cs

\* The timer of the queue fires first: enqueue rejects, the handler ends in the
\* catch block, and the provider call stays pending in the breaker.
GWTimeout ==
    /\ gwReq.pos = "running"
    /\ gwReq.invoked
    /\ \E i \in 1..Len(qRunning[gwReq.user]) :
         /\ OwnOperation(gwReq, i)
         /\ QTimeoutEffect(gwReq.user, i)
    /\ Caught(gwReq)
    /\ gwAbandoned' = [gwAbandoned EXCEPT ![gwReq.provider] = @ + 1]
    /\ circuits' = TimedOut(circuits, gwReq.provider, now)
    /\ rlHeap' = AfterAdmission(rlHeap, rlCache, gwReq.user)
    /\ UNCHANGED <<now, ticks, cbPending, cbRun, cbStreak, cbLast, pctVars, alertVars, rlRest, ipVars,
                   gwCount, providerMetrics, gwChecks>>

\* A provider call abandoned by a timeout settles: only the breaker hears of it.
GWAbandonedSettles(p, outcome) ==
    /\ gwAbandoned[p] > 0
    /\ gwAbandoned' = [gwAbandoned EXCEPT ![p] = @ - 1]
    /\ IF outcome = "resolved" THEN CBOperationSucceedsEffect(p) ELSE CBOperationFailsEffect(p)
    /\ UNCHANGED <<now, ticks, pctVars, alertVars, qVars, rlVars, ipVars,
                   gwReq, gwCount, currentSnapshot, providerMetrics, gwChecks>>

GWTick ==
    /\ Advance(GWSteps, GWMaxTicks)
    /\ UNCHANGED <<cbVars, pctVars, alertVars, qVars, rlVars, ipVars, gwVars>>

GWNext ==
    \/ \E method \in {"POST", "OPTIONS"}, ip \in Addresses, hasAuth \in BOOLEAN :
          GWArrive(method, ip, hasAuth)
    \/ \E outcome \in {"user", "invalid", "throws"}, u \in Users : GWAuthSettles(outcome, u)
    \/ \E failed \in BOOLEAN : GWFetchSettles(failed)
    \/ \E failed \in BOOLEAN : GWSyncSettles(failed)
    \/ \E body \in {"valid", "too_many", "malformed"}, p \in Providers : GWBodySettles(body, p)
    \/ \E outcome \in {"resolved", "rejected"} : GWOperationSettles(outcome)
    \/ GWTimeout
    \/ \E p \in Providers, outcome \in {"resolved", "rejected"} : GWAbandonedSettles(p, outcome)
    \/ GWTick

\* getCurrentWindowMetrics, metrics.ts lines 121-134: the counters of the open
\* snapshot and the entries of providerMetrics; errorRate, (errors / requests) * 100,
\* is kept as the fraction num / den (checkAndAlert compares it from errors and
\* requests, see ErrorRateAtLeast).
ErrorRate_Unguarded(requests, errors) == [num |-> errors * 100, den |-> requests]
ErrorRate(requests, errors) ==
    IF requests > 0 THEN [num |-> errors * 100, den |-> requests] ELSE [num |-> 0, den |-> 1]
GetCurrentWindowMetrics(s, reports) ==
    [requests |-> s.requests, errors |-> s.errors,
     errorRate |-> ErrorRate(s.requests, s.errors),
     rateLimitBreaches |-> s.rateLimitBreaches, providers |-> reports]
\* Object.fromEntries(providerMetrics) as checkAndAlert walks it: every reported
\* provider once, in the order of the first report of each.
ProviderEntries(pm) ==
    {[i \in 1..Len(order) |-> [provider |-> order[i], circuitState |-> pm[order[i]].circuitState]] :
        order \in {o \in BoundedSeq(DOMAIN pm, Cardinality(DOMAIN pm)) :
                      /\ Len(o) = Cardinality(DOMAIN pm)
                      /\ \A i, j \in 1..Len(o) : i # j => o[i] # o[j]}}

\* The alert monitoring interval, index.ts lines 328-331: the open window is read
\* and handed to checkAndAlert.
GWMaxChecks == 2
GWAlertCheck ==
    /\ gwChecks < GWMaxChecks
    /\ gwChecks' = gwChecks + 1
    /\ \E reports \in ProviderEntries(providerMetrics) :
          CheckAndAlertEffect(GetCurrentWindowMetrics(currentSnapshot, reports))
    /\ UNCHANGED <<now, ticks, cbVars, pctVars, qVars, rlVars, ipVars,
                   gwReq, gwCount, gwAbandoned, currentSnapshot, providerMetrics>>

\* The handler together with the alert monitoring interval.
MonitorNext ==
    \/ GWNext
    \/ GWAlertCheck

\* No request has arrived and nothing has been recorded.
GWIdle ==
    /\ gwReq = GWNoRequest
    /\ gwCount = 0
    /\ gwAbandoned = [p \in Providers |-> 0]
    /\ gwChecks = 0
    /\ providerMetrics = <<>>
    /\ currentSnapshot = CreateSnapshot(StartTime)

\* The states in which the followed requests arrive, all at StartTime.
\* Nothing has happened yet.
LoadFresh == CBInit /\ QInit /\ RLInit /\ IPInit /\ GWIdle

\* Entries of the two limiters after n requests at StartTime, `synced` of them
\* written to the store.
IPLoaded(n, windowStart, burst) ==
    /\ ipCache = [ip \in Addresses |-> [count |-> n, windowStart |-> windowStart, violations |-> 0]]
    /\ ipShadow = ipCache
    /\ ipHour = [ip \in Addresses |-> [start |-> windowStart, admitted |-> n]]
    /\ ipBurst = [ip \in Addresses |-> [start |-> StartTime, admitted |-> burst]]
    /\ \E ip \in Addresses : ipLast = IPResult(ip, TRUE, "none")
RLLoaded(n, synced, store) ==
    /\ Cardinality(Users) = 1
    /\ rlCache = [u \in Users |-> 1]
    /\ rlHeap = [o \in {1} |-> [count |-> n, windowStart |-> StartTime, lastUpdated |-> StartTime,
                                dbSyncCount |-> n - synced]]
    /\ rlCalls = [s \in 1..RLMaxCalls |-> RLIdle]
    /\ rlDb = IF synced = 0 THEN <<>>
              ELSE [k \in {<<u, RequestDate(StartTime)>> : u \in Users} |-> synced]
    /\ rlAnchor = [u \in Users |-> StartTime]
    /\ rlAdmitted = [u \in Users |-> n]
    /\ rlStoreFailed = FALSE
    /\ \E u \in Users : rlLast = RLReturn(u, TRUE, DAILY_LIMIT - n, store)

\* HOURLY_LIMIT requests without an Authorization header, half of them
\* BURST_WINDOW_MS ago and half now: the address has used up its hour.
LoadIPAtLimit ==
    /\ IPLoaded(HOURLY_LIMIT, StartTime - BURST_WINDOW_MS, HOURLY_LIMIT - BURST_LIMIT)
    /\ CBInit /\ QInit /\ RLInit /\ GWIdle

\* DAILY_LIMIT requests of the user that asked for too many items: the quota is
\* used up and written to the store.
LoadQuotaUsed ==
    /\ IPLoaded(DAILY_LIMIT, StartTime, DAILY_LIMIT)
    /\ RLLoaded(DAILY_LIMIT, DAILY_LIMIT, "written")
    /\ CBInit /\ QInit /\ GWIdle

\* MAX_CONCURRENT_PER_USER + MAX_QUEUE_SIZE requests of the user for gemini are in
\* the handler: the first ones run their provider calls, the others wait.
LoadQueueFull ==
    /\ IPLoaded(MAX_CONCURRENT_PER_USER + MAX_QUEUE_SIZE, StartTime,
                MAX_CONCURRENT_PER_USER + MAX_QUEUE_SIZE)
    /\ RLLoaded(MAX_CONCURRENT_PER_USER + MAX_QUEUE_SIZE, DB_SYNC_INTERVAL, "none")
    /\ circuits = [k \in {CircuitKey("gemini")} |-> NewCircuit(StartTime)]
    /\ cbPending = [p \in Providers |-> IF p = "gemini" THEN MAX_CONCURRENT_PER_USER ELSE 0]
    /\ cbRun = [p \in Providers |-> 0]
    /\ cbStreak = [p \in Providers |-> 0]
    /\ cbLast = [kind |-> "execute", provider |-> "gemini", outcome |-> "invoked"]
    /\ queues = [u \in Users |-> [i \in 1..MAX_QUEUE_SIZE |-> [id |-> i, timestamp |-> StartTime]]]
    /\ processing = [u \in Users |-> MAX_CONCURRENT_PER_USER]
    /\ qRunning = [u \in Users |-> [i \in 1..MAX_CONCURRENT_PER_USER |-> StartTime]]
    /\ qNextId = MAX_QUEUE_SIZE
    /\ \E u \in Users : qLast = [kind |-> "enqueue", user |-> u, outcome |-> "queued", released |-> 0]
    /\ qLosers = [u \in Users |-> 0]
    /\ qTrackLosers = FALSE
    /\ qTrackExpired = FALSE
    /\ qExpired = {}
    /\ qAbandoned = [u \in Users |-> 0]
    /\ GWIdle

\* Nine requests of the user for gemini have ended in the catch block: the provider
\* failed FAILURE_THRESHOLD times, and the open breaker rejected the others.
LoadBreakerOpen ==
    /\ IPLoaded(DB_SYNC_INTERVAL - 1, StartTime, DB_SYNC_INTERVAL - 1)
    /\ RLLoaded(DB_SYNC_INTERVAL - 1, 0, "none")
    /\ circuits = [k \in {CircuitKey("gemini")} |->
                     [state |-> "OPEN", failures |-> FAILURE_THRESHOLD,
                      lastFailureTime |-> StartTime, lastSuccessTime |-> StartTime]]
    /\ cbPending = [p \in Providers |-> 0]
    /\ cbRun = [p \in Providers |-> IF p = "gemini" THEN FAILURE_THRESHOLD ELSE 0]
    /\ cbStreak = [p \in Providers |-> IF p = "gemini" THEN FAILURE_THRESHOLD ELSE 0]
    /\ cbLast = [kind |-> "execute", provider |-> "gemini", outcome |-> "rejected"]
    /\ QFresh
    /\ qTrackLosers = FALSE
    /\ qTrackExpired = FALSE
    /\ gwReq = GWNoRequest
    /\ gwCount = 0
    /\ gwAbandoned = [p \in Providers |-> 0]
    /\ gwChecks = 0
    /\ providerMetrics = <<>>
    /\ currentSnapshot =
          [timestamp |-> StartTime, requests |-> DB_SYNC_INTERVAL - 1, errors |-> DB_SYNC_INTERVAL - 1,
           responseTimes |-> [i \in 1..(DB_SYNC_INTERVAL - 1) |-> 0], rateLimitBreaches |-> 0]

\* FAILURE_THRESHOLD - 1 requests of the user for gemini have ended in the catch
\* block after the provider failed: one more failure opens the breaker.
LoadBreakerFailing ==
    /\ IPLoaded(FAILURE_THRESHOLD - 1, StartTime, FAILURE_THRESHOLD - 1)
    /\ RLLoaded(FAILURE_THRESHOLD - 1, 0, "none")
    /\ circuits = [k \in {CircuitKey("gemini")} |->
                     [state |-> "CLOSED", failures |-> FAILURE_THRESHOLD - 1,
                      lastFailureTime |-> StartTime, lastSuccessTime |-> StartTime]]
    /\ cbPending = [p \in Providers |-> 0]
    /\ cbRun = [p \in Providers |-> IF p = "gemini" THEN FAILURE_THRESHOLD - 1 ELSE 0]
    /\ cbStreak = [p \in Providers |-> IF p = "gemini" THEN FAILURE_THRESHOLD - 1 ELSE 0]
    /\ cbLast = [kind |-> "failure", provider |-> "gemini", outcome |-> "thrown"]
    /\ QFresh
    /\ qTrackLosers = FALSE
    /\ qTrackExpired = FALSE
    /\ gwReq = GWNoRequest
    /\ gwCount = 0
    /\ gwAbandoned = [p \in Providers |-> 0]
    /\ gwChecks = 0
    /\ providerMetrics = <<>>
    /\ currentSnapshot =
          [timestamp |-> StartTime, requests |-> FAILURE_THRESHOLD - 1, errors |-> FAILURE_THRESHOLD - 1,
           responseTimes |-> [i \in 1..(FAILURE_THRESHOLD - 1) |-> 0], rateLimitBreaches |-> 0]

\* A request that has left the handler on one of the paths of a denial, a provider
\* call or a timeout.
Handled(r) == r.pos = "done" /\ (r.denied # "none" \/ r.invoked)
\* C16: every request handled is recorded by the metrics collector exactly once,
\* whether it was denied by the IP limiter or by the user rate limiter, rejected by
\* the queue or the breaker, failed or timed out in the provider call, or succeeded.
C16_RecordedExactlyOnce ==
    Handled(gwReq) => gwReq.recordRequest + gwReq.recordRateLimitBreach = 1

Prefix(seq, n) == SubSeq(seq, 1, n)
C18_StagesInOrder ==
    /\ \E n \in 0..Len(StageOrder) : gwReq.stages = Prefix(StageOrder, n)
    /\ gwReq.denied = "ip" => (gwReq.stages = Prefix(StageOrder, 1) /\ gwReq.pos = "done")
    /\ gwReq.denied = "quota" => (gwReq.stages = Prefix(StageOrder, 2) /\ gwReq.pos = "done")
    /\ gwReq.denied = "queue" => (gwReq.stages = Prefix(StageOrder, 3) /\ gwReq.pos = "done")
    /\ gwReq.denied = "breaker" => (gwReq.stages = Prefix(StageOrder, 4) /\ ~gwReq.invoked)
InStages(r, stage) == \E i \in 1..Len(r.stages) : r.stages[i] = stage
C18_LaterStagesUntouched ==
    gwReq' # gwReq =>
        /\ ~InStages(gwReq', "quota") => rlVars' = rlVars
        /\ ~InStages(gwReq', "queue") => qVars' = qVars
        /\ ~InStages(gwReq', "breaker") => cbVars' = cbVars
        /\ ~InStages(gwReq', "provider") => cbPending' = cbPending
\* C18: a request passes the IP limiter, the user rate limiter, the queue, the
\* breaker and the provider call in this order; a request denied at one stage ends
\* there, and no step of a request changes the state of a stage it has not reached:
\* an IP-denied request uses no quota, a quota-denied request does not enter the
\* queue, a queue-full request reaches neither the breaker nor the provider.
C18_StageOrderAndIsolation == []C18_StagesInOrder /\ [][C18_LaterStagesUntouched]_vars
\* A request turned away by the full queue of its user, with the breaker and the
\* pending provider calls as they were.
C18_Witness ==
    /\ gwReq.denied = "queue" /\ gwReq.pos = "done" /\ gwReq.status = 500
    /\ \A u \in Users : QueueFull(queues[u]) /\ processing[u] = MAX_CONCURRENT_PER_USER
    /\ cbPending["gemini"] = MAX_CONCURRENT_PER_USER /\ cbLast.outcome = "invoked"
\* A request denied by the IP limiter with an untouched quota, and one denied by
\* the user rate limiter with empty queues.
C18_WitnessIP ==
    /\ gwReq.denied = "ip" /\ gwReq.status = 429
    /\ rlCache = [u \in Users |-> 0]
C18_WitnessQuota ==
    /\ gwReq.denied = "quota" /\ gwReq.status = 429
    /\ \A u \in Users : queues[u] = <<>> /\ processing[u] = 0


(***************************************************************************)
(* MetricsCollector's snapshots (metrics.ts)                               *)
(***************************************************************************)
METRICS_WINDOW_MS == 5 * 60 * 1000
MAX_SNAPSHOTS == 12

MCMaxRotations == 13   \* rotations explored: one more than the snapshots kept
MCMaxEvents == 2       \* recordings made over a run
MCDurations == {10, 20}

\* rotateSnapshot, line 43: is the ring over its capacity after the push?
OverCapacity_AtCapacity(snaps) == Len(snaps) >= MAX_SNAPSHOTS
OverCapacity(snaps) == Len(snaps) > MAX_SNAPSHOTS

\* rotateSnapshot, lines 41-47, at time t: push, shift when over capacity, and a
\* new current snapshot.
RotateSnapshot(snaps, cur, t) ==
    LET pushed == Append(snaps, cur)
    IN  [snapshots |-> IF OverCapacity(pushed) THEN Tail(pushed) ELSE pushed,
         currentSnapshot |-> CreateSnapshot(t)]

\* allSnapshots.reduce((sum, s) => sum + s[field], 0), lines 70-73.
RECURSIVE SumField(_, _)
SumField(snaps, field) ==
    IF snaps = <<>> THEN 0 ELSE Head(snaps)[field] + SumField(Tail(snaps), field)
\* allSnapshots.flatMap(s => s.responseTimes), line 72.
RECURSIVE FlatResponseTimes(_)
FlatResponseTimes(snaps) ==
    IF snaps = <<>> THEN <<>> ELSE Head(snaps).responseTimes \o FlatResponseTimes(Tail(snaps))

\* getMetrics, lines 66-111: the totals over the closed snapshots and the open one.
GetMetrics(snaps, cur) ==
    LET allSnapshots == Append(snaps, cur)
    IN  [snapshotCount |-> Len(allSnapshots),
         totalRequests |-> SumField(allSnapshots, "requests"),
         totalErrors |-> SumField(allSnapshots, "errors"),
         totalRateLimitBreaches |-> SumField(allSnapshots, "rateLimitBreaches"),
         allResponseTimes |-> FlatResponseTimes(allSnapshots)]

\* A recording of the given kind is counted.
MCCounted(kind) ==
    /\ mcEvents < MCMaxEvents
    /\ mcEvents' = mcEvents + 1
    /\ mcSince' = [mcSince EXCEPT ![kind] = @ + 1]
    /\ UNCHANGED <<snapshots, mcClosed, pctValues, pctResult, now, ticks,
                   cbVars, alertVars, qVars, rlVars, ipVars,
                   gwReq, gwCount, gwAbandoned, gwChecks, providerMetrics>>

\* recordRequest, recordError and recordRateLimitBreach, lines 49-61.
MCRecordRequest(durationMs) ==
    /\ currentSnapshot' = RecordRequest(currentSnapshot, durationMs)
    /\ MCCounted("requests")
MCRecordError ==
    /\ currentSnapshot' = RecordError(currentSnapshot)
    /\ MCCounted("errors")
MCRecordRateLimitBreach ==
    /\ currentSnapshot' = RecordRateLimitBreach(currentSnapshot)
    /\ MCCounted("rateLimitBreaches")

\* The rotation interval of line 28 fires, METRICS_WINDOW_MS after the last time.
MCRotate ==
    /\ Advance({METRICS_WINDOW_MS}, MCMaxRotations)
    /\ \E rotated \in {RotateSnapshot(snapshots, currentSnapshot, now')} :
          /\ snapshots' = rotated.snapshots
          /\ currentSnapshot' = rotated.currentSnapshot
    /\ mcClosed' = Append(mcClosed, currentSnapshot)
    /\ mcSince' = [requests |-> 0, errors |-> 0, rateLimitBreaches |-> 0]
    /\ UNCHANGED <<mcEvents, pctValues, pctResult,
                   cbVars, alertVars, qVars, rlVars, ipVars,
                   gwReq, gwCount, gwAbandoned, gwChecks, providerMetrics>>

MCNext ==
    \/ \E d \in MCDurations : MCRecordRequest(d)
    \/ MCRecordError
    \/ MCRecordRateLimitBreach
    \/ MCRotate

(***************************************************************************)
(* MetricsCollector properties                                             *)
(***************************************************************************)
\* The last n elements of a sequence (all of them if it is shorter).
LastOf(seq, n) == SubSeq(seq, Max(1, Len(seq) - n + 1), Len(seq))
\* The most recent MAX_SNAPSHOTS closed windows.
RecentClosed == LastOf(mcClosed, MAX_SNAPSHOTS)
AllZero(snap) ==
    /\ snap.requests = 0 /\ snap.errors = 0 /\ snap.rateLimitBreaches = 0
    /\ snap.responseTimes = <<>>

C25_RingHoldsRecentWindows ==
    /\ Len(snapshots) <= MAX_SNAPSHOTS
    /\ snapshots = RecentClosed
C25_TotalsCoverRing ==
    \E m \in {GetMetrics(snapshots, currentSnapshot)} :
        /\ m.snapshotCount = Len(RecentClosed) + 1
        /\ m.totalRequests = SumField(RecentClosed, "requests") + mcSince.requests
        /\ m.totalErrors = SumField(RecentClosed, "errors") + mcSince.errors
        /\ m.totalRateLimitBreaches =
              SumField(RecentClosed, "rateLimitBreaches") + mcSince.rateLimitBreaches
C25_RotationStep ==
    mcClosed' # mcClosed =>
        /\ snapshots'[Len(snapshots')] = currentSnapshot
        /\ AllZero(currentSnapshot') /\ currentSnapshot'.timestamp = now'
        /\ IF Len(snapshots) < MAX_SNAPSHOTS
           THEN snapshots' = Append(snapshots, currentSnapshot)
           ELSE snapshots' = Append(Tail(snapshots), currentSnapshot)
\* C25: at most MAX_SNAPSHOTS closed snapshots are kept, and they are the most
\* recent closed windows; a rotation appends the current snapshot as newest,
\* opens an all-zero current snapshot and drops exactly the oldest closed snapshot
\* when the ring is full; the totals of getMetrics are those of the
\* MAX_SNAPSHOTS most recent closed windows plus the open one.
C25_RingOfTwelve ==
    [](C25_RingHoldsRecentWindows /\ C25_TotalsCoverRing) /\ [][C25_RotationStep]_vars
\* The window of a recorded request has been dropped from a full ring: the
\* totals no longer count it.
C25_Witness ==
    /\ Len(mcClosed) > MAX_SNAPSHOTS
    /\ mcClosed[1].requests = 1
    /\ Len(snapshots) = MAX_SNAPSHOTS
    /\ GetMetrics(snapshots, currentSnapshot).totalRequests = 0
    /\ GetMetrics(snapshots, currentSnapshot).totalErrors = 1

C26_OpenWindowOnly ==
    \A reports \in ProviderEntries(providerMetrics) :
        \E m \in {GetCurrentWindowMetrics(currentSnapshot, reports)} :
            /\ m.requests = mcSince.requests
            /\ m.errors = mcSince.errors
            /\ m.rateLimitBreaches = mcSince.rateLimitBreaches
            /\ m.requests = 0 => m.errorRate.num = 0
            /\ m.requests > 0 =>
                  m.errorRate.num * mcSince.requests = mcSince.errors * 100 * m.errorRate.den
C26_AfterRotation ==
    mcClosed' # mcClosed =>
        \A reports \in ProviderEntries(providerMetrics') :
            \E m \in {GetCurrentWindowMetrics(currentSnapshot', reports)} :
                /\ m.requests = 0 /\ m.errors = 0 /\ m.rateLimitBreaches = 0
                /\ m.errorRate.num = 0
\* C26: getCurrentWindowMetrics returns the requests, errors and breaches recorded
\* since the most recent rotation, all zero right after a rotation, with an
\* errorRate of 0 when no request was recorded; what closed windows hold does not
\* enter its result.
C26_CurrentWindowOnly == []C26_OpenWindowOnly /\ [][C26_AfterRotation]_vars
\* A closed window holds a request; since the rotation one error and no request
\* were recorded.
C26_Witness ==
    /\ mcClosed # <<>>
    /\ mcClosed[Len(mcClosed)].requests = 1
    /\ currentSnapshot.requests = 0
    /\ currentSnapshot.errors = 1

\* C21: every run of the alert evaluation that finds a provider's breaker OPEN
\* while that provider's circuit_open key is outside its cooldown fires the
\* circuit_open alert of that provider, also when the breaker opened through
\* failed calls.
\* The request in the handler was admitted by checkLimit and has gone on.
Admitted(r) ==
    /\ InStages(r, "quota") /\ r.denied # "quota"
    /\ r.pos \in {"body", "waiting", "running", "done"}
    /\ r.user \in Users
CountOf(u) == IF rlCache[u] = 0 THEN 0 ELSE rlHeap[rlCache[u]].count
C38_StaysCounted ==
    (Admitted(gwReq) /\ rlLast.kind = "return" /\ rlLast.allowed)
        => (CountOf(gwReq.user) >= 1 /\ CountOf(gwReq.user) = DAILY_LIMIT - rlLast.remaining)
C38_LaterStep ==
    gwReq.pos \notin {"auth", "quota"} => rlVars' = rlVars
\* C38: once checkLimit has admitted a request, the count of the user stays as
\* that call left it through every later step of the request, whether the request
\* is rejected as queue-full, rejected by an OPEN breaker, timed out or failed in
\* the provider: only the steps of checkLimit change the rate limiter.
C38_NoRefund == []C38_StaysCounted /\ [][C38_LaterStep]_vars
\* An admitted request was turned away by the full queue; the count includes it.
C38_Witness ==
    /\ Admitted(gwReq) /\ gwReq.denied = "queue" /\ gwReq.pos = "done"
    /\ rlLast.kind = "return" /\ rlLast.allowed
    /\ CountOf(gwReq.user) = DAILY_LIMIT - rlLast.remaining
\* Admitted requests rejected by the OPEN breaker, timed out, and failed.
C38_WitnessBreaker ==
    /\ Admitted(gwReq) /\ gwReq.denied = "breaker" /\ gwReq.pos = "done"
    /\ CountOf(gwReq.user) >= 1
C38_WitnessTimeout ==
    /\ Admitted(gwReq) /\ gwReq.pos = "done" /\ qLast.kind = "timeout"
    /\ gwAbandoned[gwReq.provider] > 0
    /\ CountOf(gwReq.user) >= 1
C38_WitnessFailed ==
    /\ Admitted(gwReq) /\ gwReq.pos = "done" /\ gwReq.invoked
    /\ cbLast.kind = "failure" /\ qLast.kind = "settle"
    /\ CountOf(gwReq.user) >= 1

\* The rotation interval (metrics.ts line 28, set when the module is loaded) and
\* the alert interval (part_004 lines 328-331, set afterwards) have the same
\* period: each time it elapses the rotation runs first and the evaluation after
\* it. Recordings may fall between the two.
WARotate ==
    /\ gwChecks = ticks
    /\ MCRotate
WAAlertCheck ==
    /\ gwChecks < ticks
    /\ GWAlertCheck
WANext ==
    \/ \E d \in MCDurations : MCRecordRequest(d)
    \/ MCRecordError
    \/ MCRecordRateLimitBreach
    \/ WARotate
    \/ WAAlertCheck

\* The open window after the given number of requests without an error.
WAWindow(requests) ==
    [timestamp |-> StartTime, requests |-> requests, errors |-> 0,
     responseTimes |-> [i \in 1..requests |-> 0], rateLimitBreaches |-> 0]
WAInit ==
    /\ pctValues = <<>>
    /\ pctResult = [percentile |-> 0, value |-> 0]
    /\ snapshots = <<>>
    /\ mcClosed = <<>>
    /\ mcEvents = 0
    /\ gwReq = GWNoRequest
    /\ gwCount = 0
    /\ gwAbandoned = [p \in Providers |-> 0]
    /\ gwChecks = 0
    /\ providerMetrics = <<>>
    /\ \E requests \in {0, MIN_REQUESTS} :
          /\ currentSnapshot = WAWindow(requests)
          /\ mcSince = [requests |-> requests, errors |-> 0, rateLimitBreaches |-> 0]

\* The window closed by the last rotation.
EndedWindow == mcClosed[Len(mcClosed)]
C36_EvaluationStep ==
    gwChecks' # gwChecks =>
        /\ (/\ EndedWindow.requests >= MIN_REQUESTS
            /\ EndedWindow.errors * 100 >= ERROR_RATE_THRESHOLD * EndedWindow.requests
            /\ CooldownPassed(alertStates, "high_error_rate", now))
              => FiresNow("high_error_rate")
        /\ (/\ EndedWindow.rateLimitBreaches >= RATE_LIMIT_BREACH_THRESHOLD
            /\ CooldownPassed(alertStates, "excessive_rate_limits", now))
              => FiresNow("excessive_rate_limits")
\* C36: each alert evaluation sees the counts of the window that has just
\* ended: if that window has at least MIN_REQUESTS requests and an error rate of
\* at least ERROR_RATE_THRESHOLD percent, or at least
\* RATE_LIMIT_BREACH_THRESHOLD breaches, the alert fires unless in its cooldown.
C36_EndedWindowEvaluated == [][C36_EvaluationStep]_vars

\* The failure accounting of the breaker of provider p.
Accounting(cs, p) ==
    IF CircuitKey(p) \in DOMAIN cs
    THEN <<cs[CircuitKey(p)].state, cs[CircuitKey(p)].failures, cs[CircuitKey(p)].lastFailureTime>>
    ELSE <<"CLOSED", 0, 0>>
C35_TimeoutStep ==
    \A p \in Providers :
        /\ gwAbandoned'[p] > gwAbandoned[p]
              => (Accounting(circuits', p) = Accounting(circuits, p) /\ cbPending'[p] = cbPending[p])
        /\ Accounting(circuits', p) # Accounting(circuits, p)
              => cbPending'[p] # cbPending[p]
        /\ (Accounting(circuits', p)[1] = "OPEN" /\ Accounting(circuits, p)[1] # "OPEN")
              => (cbPending'[p] = cbPending[p] - 1 /\ cbLast'.kind = "failure" /\ cbLast'.provider = p)
\* C35: when the timer of the queue wins against an operation whose provider call
\* is pending in the breaker, the failures, lastFailureTime and state of the
\* provider stay as they are and the call stays pending; they change only in a
\* step in which a provider call starts or settles, and the breaker opens only
\* in a step in which a provider call fails.
C35_TimeoutIsNoFailure == [][C35_TimeoutStep]_vars
\* A call of a provider one failure below the threshold has timed out in the
\* queue: the breaker is still CLOSED at that count and the call is pending.
C35_Witness ==
    \E p \in Providers :
        /\ qLast.kind = "timeout" /\ gwReq.pos = "done" /\ gwReq.provider = p
        /\ gwAbandoned[p] > 0 /\ cbPending[p] > 0
        /\ Accounting(circuits, p)[1] = "CLOSED"
        /\ Accounting(circuits, p)[2] = FAILURE_THRESHOLD - 1
\* The abandoned call failed later and opened the breaker.
C35_WitnessLateFailure ==
    \E p \in Providers :
        /\ qLast.kind = "timeout" /\ gwReq.pos = "done" /\ gwReq.provider = p
        /\ gwAbandoned[p] = 0 /\ cbLast.kind = "failure" /\ cbLast.provider = p
        /\ Accounting(circuits, p)[1] = "OPEN"

C21_EvaluationStep ==
    gwChecks' # gwChecks =>
        \A p \in Providers :
            (/\ CircuitKey(p) \in DOMAIN circuits
             /\ circuits[CircuitKey(p)].state = "OPEN"
             /\ CooldownPassed(alertStates, CircuitOpenKey(p), now))
            => FiresNow(CircuitOpenKey(p))
C21_OpenBreakerAlerted == [][C21_EvaluationStep]_vars

Init ==
    /\ now = StartTime
    /\ ticks = 0
    /\ CBInit
    /\ PctIdle
    /\ AlertInit
    /\ webhookUrl = FALSE
    /\ alertTrack = {}
    /\ QInit
    /\ RLInit
    /\ IPInit
    /\ GWIdle

SpecCB == Init /\ [][CBNext]_vars

SpecMetrics == Init /\ [][MCNext]_vars

InitGateway ==
    /\ now = StartTime
    /\ ticks = 0
    /\ PctIdle
    /\ AlertInit
    /\ webhookUrl = FALSE
    /\ alertTrack = {}
    /\ \/ LoadFresh
       \/ LoadIPAtLimit
       \/ LoadQuotaUsed
       \/ LoadQueueFull
       \/ LoadBreakerOpen

SpecGateway == InitGateway /\ [][GWNext]_vars

InitMonitor ==
    /\ now = StartTime
    /\ ticks = 0
    /\ PctIdle
    /\ AlertInit
    /\ webhookUrl = FALSE
    /\ alertTrack = {}
    /\ \/ LoadFresh
       \/ LoadIPAtLimit
       \/ LoadQuotaUsed
       \/ LoadQueueFull
       \/ LoadBreakerOpen
       \/ LoadBreakerFailing

SpecMonitor == InitMonitor /\ [][MonitorNext]_vars

InitWindowAlert ==
    /\ now = StartTime
    /\ ticks = 0
    /\ CBInit
    /\ AlertInit
    /\ webhookUrl = FALSE
    /\ alertTrack = {}
    /\ QInit
    /\ RLInit
    /\ IPInit
    /\ WAInit

SpecWindowAlert == InitWindowAlert /\ [][WANext]_vars

\* The handler alone, from the same loaded states.
SpecGatewayLoaded == InitMonitor /\ [][GWNext]_vars

InitPercentile ==
    /\ now = StartTime
    /\ ticks = 0
    /\ CBInit
    /\ PctInit
    /\ AlertInit
    /\ webhookUrl = FALSE
    /\ alertTrack = {}
    /\ QInit
    /\ RLInit
    /\ IPInit
    /\ GWIdle

SpecPercentile == InitPercentile /\ [][ReportPercentile]_vars

InitAlert ==
    /\ now = StartTime
    /\ ticks = 0
    /\ CBInit
    /\ PctIdle
    /\ AlertInit
    /\ webhookUrl \in BOOLEAN
    /\ alertTrack = {}
    /\ QInit
    /\ RLInit
    /\ IPInit
    /\ GWIdle

SpecAlert == InitAlert /\ [][AlertNext]_vars

InitAlertSink ==
    /\ now = StartTime
    /\ ticks = 0
    /\ CBInit
    /\ PctIdle
    /\ AlertInit
    /\ webhookUrl = TRUE
    /\ alertTrack = {"sink"}
    /\ QInit
    /\ RLInit
    /\ IPInit
    /\ GWIdle

SpecAlertSink == InitAlertSink /\ [][AlertSinkNext]_vars

InitAlertThreshold ==
    /\ now = StartTime
    /\ ticks = 0
    /\ CBInit
    /\ PctIdle
    /\ AlertInit
    /\ webhookUrl \in BOOLEAN
    /\ alertTrack = {"window"}
    /\ QInit
    /\ RLInit
    /\ IPInit
    /\ GWIdle

SpecAlertThreshold == InitAlertThreshold /\ [][AlertThresholdNext]_vars

SpecQueue == Init /\ [][QNext]_vars

InitQueueRace ==
    /\ now = StartTime
    /\ ticks = 0
    /\ CBInit
    /\ PctIdle
    /\ AlertInit
    /\ webhookUrl = FALSE
    /\ alertTrack = {}
    /\ QRaceInit
    /\ RLInit
    /\ IPInit
    /\ GWIdle

SpecQueueRace == InitQueueRace /\ [][QRaceNext]_vars

InitQueueSweep ==
    /\ now = StartTime
    /\ ticks = 0
    /\ CBInit
    /\ PctIdle
    /\ AlertInit
    /\ webhookUrl = FALSE
    /\ alertTrack = {}
    /\ QSweepInit
    /\ RLInit
    /\ IPInit
    /\ GWIdle

SpecQueueSweep == InitQueueSweep /\ [][QSweepNext]_vars

InitQueueLive ==
    /\ now = StartTime
    /\ ticks = 0
    /\ CBInit
    /\ PctIdle
    /\ AlertInit
    /\ webhookUrl = FALSE
    /\ alertTrack = {}
    /\ QInit
    /\ RLInit
    /\ IPInit
    /\ GWIdle

SpecQueueLive == InitQueueLive /\ [][QLiveNext]_vars /\ QLiveFairness

SpecIP == Init /\ [][IPNext]_vars

SpecRL == Init /\ [][RLNext]_vars

InitRLSeq ==
    /\ now = StartTime
    /\ ticks = 0
    /\ CBInit
    /\ PctIdle
    /\ AlertInit
    /\ webhookUrl = FALSE
    /\ alertTrack = {}
    /\ QInit
    /\ RLSeqInit
    /\ IPInit
    /\ GWIdle

SpecRLSeq == InitRLSeq /\ [][RLNext]_vars

InitRLOverlap ==
    /\ now = StartTime
    /\ ticks = 0
    /\ CBInit
    /\ PctIdle
    /\ AlertInit
    /\ webhookUrl = FALSE
    /\ alertTrack = {}
    /\ QInit
    /\ RLOverlapInit
    /\ IPInit
    /\ GWIdle

SpecRLOverlap == InitRLOverlap /\ [][RLFirstNext]_vars

SpecRLFirst == Init /\ [][RLFirstNext]_vars
====
